---- MODULE Spec2Model ----
(***************************************************************************)
(* A model of financial_pdf_parsing: the amount parser and the year        *)
(* boundary adjustment of pdf.py, the extraction primitives and the Bank   *)
(* of America credit card rule set of parsers.py and                       *)
(* bank_of_america_credit_card.py, and the ledger builder of beancount.py. *)
(*                                                                         *)
(* Text is a sequence of one-character strings.  A statement's contents is *)
(* a sequence of lines, each line holding the capture groups the rule      *)
(* set's patterns take from it; finditer is the selection, in order, of    *)
(* the lines a pattern matches.                                            *)
(***************************************************************************)
EXTENDS Integers, Sequences, FiniteSets, TLC

VARIABLES
    pc,            \* position of the caller: which call comes next
    s,             \* the string handed to ParseAmount
    amount_out,    \* what ParseAmount returned or raised
    to_adjust,     \* AdjustDateForYearBoundary's first argument
    latest_date,   \* AdjustDateForYearBoundary's second argument
    adjusted_out,  \* what AdjustDateForYearBoundary returned or raised
    importer,      \* which entry point reads the statement
    current_year,  \* the year of the clock when the statement is read
    contents,      \* the statement's text, as PDFToText returned it
    account_no,    \* the account number extracted
    balance,       \* the closing balance extracted
    closing_date,  \* the closing date extracted
    transactions,  \* the Transaction tuples extracted
    items,         \* BeancountLedgerItems.items
    error,         \* the exception that ended the read, if any
    returned,      \* the directives handed back to the caller
    rewards_currency, \* ChaseCC: the currency of the rewards balance
    rewards_balance,  \* ChaseCC: the rewards balance extracted
    skip_accounts, \* CapitalOneBank: the account numbers to leave out, or None
    num_to_account,\* CapitalOneBank: the dict from account number to account
    accounts,      \* CapitalOneBank: the CapitalOneBankAccount tuples parsed
    basename,      \* importer: os.path.basename(f.name) of the file handed over
    account_numbers, \* importer: the account number(s) it was created with
    identified,    \* importer: what identify returned or raised
    account_type,  \* vanguard_pdf_to_txns: the --account_type argument
    pdfs,          \* vanguard_pdf_to_txns: the paths still to be parsed
    path,          \* vanguard_pdf_to_txns: the path last handed to pdfToText
    sidecar,       \* for each path, the text of its '.txt' file, if it exists
    tool_runs,     \* for each path, how many times pdftotext ran on it
    text_out,      \* what the last call of pdfToText returned or raised
    err,           \* what checkUnconsumed returned to the parse function
    rows           \* vanguard_pdf_to_txns: the rows parsed so far

callVars == <<s, amount_out, to_adjust, latest_date, adjusted_out>>
stmtVars == <<importer, current_year, contents, account_no, balance,
              closing_date, transactions, items, error, returned>>
ruleVars == <<rewards_currency, rewards_balance, skip_accounts,
              num_to_account, accounts>>
vgVars == <<account_type, pdfs, path, sidecar, tool_runs, text_out, err, rows>>
idVars == <<basename, account_numbers, identified>>
vars == <<pc, callVars, stmtVars, ruleVars, idVars, vgVars>>

----------------------------------------------------------------------------
(* Bounds of the model *)

\* longest run of sign/currency markers in front of a token's number
MaxMarkers == 3
\* longest number text (digits, separators, point) of a token
MaxBody == 4
\* the calendar years dates are drawn from
FirstYear == 2019
LastYear == 2023
\* most lines of the statement stating one fact (a balance, a closing date)
MaxFactLines == 2
\* most transaction rows of a statement
MaxRows == 2
\* most account sections of a Capital One bank statement
MaxSections == 2

----------------------------------------------------------------------------
(* Outcomes of a call: a returned value, or the exception raised *)

Ok(v) == [tag |-> "ok", val |-> v]
Raise(e, msg) == [tag |-> e, msg |-> msg]
NotCalled == [tag |-> "none"]

----------------------------------------------------------------------------
(* decimal.Decimal, as beancount's number.D builds it *)

DigitChars == {"0", "1", "2", "3", "4", "5", "6", "7", "8", "9"}

DigitVal(c) ==
    CASE c = "0" -> 0 [] c = "1" -> 1 [] c = "2" -> 2 [] c = "3" -> 3
      [] c = "4" -> 4 [] c = "5" -> 5 [] c = "6" -> 6 [] c = "7" -> 7
      [] c = "8" -> 8 [] c = "9" -> 9

IsDigit(c) == c \in DigitChars
NotSeparator(c) == c \notin {",", " "}

RECURSIVE DigitsValue(_)
DigitsValue(ds) ==
    IF ds = <<>> THEN 0
    ELSE 10 * DigitsValue(SubSeq(ds, 1, Len(ds) - 1)) + DigitVal(ds[Len(ds)])

\* A Decimal: sign, integer coefficient and number of fractional digits.
Dec(neg, coef, scale) == [neg |-> neg, coef |-> coef, scale |-> scale]

Unsigned(t) == IF t /= <<>> /\ t[1] \in {"-", "+"} THEN Tail(t) ELSE t

\* The strings decimal.Decimal accepts, among those made of sign, digits and point.
IsDecimalText(t) ==
    LET u == Unsigned(t)
    IN  /\ \A i \in 1..Len(u) : IsDigit(u[i]) \/ u[i] = "."
        /\ Cardinality({i \in 1..Len(u) : u[i] = "."}) <= 1
        /\ \E i \in 1..Len(u) : IsDigit(u[i])

DecimalOf(t) ==
    LET u == Unsigned(t)
        points == {i \in 1..Len(u) : u[i] = "."}
        point == IF points = {} THEN Len(u) ELSE CHOOSE i \in points : TRUE
    IN  Dec(t[1] = "-", DigitsValue(SelectSeq(u, IsDigit)), Len(u) - point)

\* number.D: '' is Decimal() (zero); otherwise commas and spaces are removed
\* and the rest goes to decimal.Decimal, any failure re-raised as ValueError.
D(str) ==
    IF str = <<>> THEN Ok(Dec(FALSE, 0, 0))
    ELSE LET t == SelectSeq(str, NotSeparator)
         IN  IF IsDecimalText(t) THEN Ok(DecimalOf(t)) ELSE Raise("ValueError", "Impossible to create Decimal instance")

NEGATIVE_ONE == Dec(TRUE, 1, 0)

\* Decimal.__mul__ (within the context's precision): signs xor, coefficients
\* multiply, exponents add.
DecMul(a, b) == Dec(a.neg /= b.neg, a.coef * b.coef, a.scale + b.scale)

RECURSIVE Pow10(_)
Pow10(n) == IF n = 0 THEN 1 ELSE 10 * Pow10(n - 1)

\* Decimal.__eq__: numeric equality, so 1.5 = 1.50 and 0 = -0.
Signed(a) == IF a.neg THEN 0 - a.coef ELSE a.coef
DecEq(a, b) == Signed(a) * Pow10(b.scale) = Signed(b) * Pow10(a.scale)

Amount(number, currency) == [number |-> number, currency |-> currency]

\* Amounts compared by their digits as written, 1.5 and 1.50 differing.
AmountIdentical(a, b) == a = b

AmountEq(a, b) == DecEq(a.number, b.number) /\ a.currency = b.currency

InvertAmount(amt) == Amount(DecMul(amt.number, NEGATIVE_ONE), amt.currency)

----------------------------------------------------------------------------
(* pdf.ParseAmount *)

StartsWith(str, prefix) ==
    Len(str) >= Len(prefix) /\ SubSeq(str, 1, Len(prefix)) = prefix

\* ParseAmount with the parenthesized wrap stripped but not taken as a sign.
ParseAmountWrapNotNegative(str) ==
    IF str = <<>> THEN Raise("IndexError", "string index out of range")
    ELSE
    LET wrapped == str[1] = "(" /\ str[Len(str)] = ")"
        s1 == IF wrapped THEN SubSeq(str, 2, Len(str) - 1) ELSE str
        minus == StartsWith(s1, <<"-", "$">>)
        s2 == IF minus THEN SubSeq(s1, 3, Len(s1)) ELSE s1
    IN  IF s2 = <<>> THEN Raise("IndexError", "string index out of range")
        ELSE
        LET s3 == IF s2[1] = "$" THEN Tail(s2) ELSE s2
            d == D(s3)
        IN  IF d.tag /= "ok" THEN d
            ELSE LET a == Amount(d.val, "USD")
                 IN  Ok(IF minus THEN InvertAmount(a) ELSE a)

\* The three strips of ParseAmount; s[0] of an empty string raises IndexError.
ParseAmount(str) ==
    IF str = <<>> THEN Raise("IndexError", "string index out of range")
    ELSE
    LET wrapped == str[1] = "(" /\ str[Len(str)] = ")"
        s1 == IF wrapped THEN SubSeq(str, 2, Len(str) - 1) ELSE str
        minus == StartsWith(s1, <<"-", "$">>)
        s2 == IF minus THEN SubSeq(s1, 3, Len(s1)) ELSE s1
        invert == wrapped \/ minus
    IN  IF s2 = <<>> THEN Raise("IndexError", "string index out of range")
        ELSE
        LET s3 == IF s2[1] = "$" THEN Tail(s2) ELSE s2
            d == D(s3)
        IN  IF d.tag /= "ok" THEN d
            ELSE LET a == Amount(d.val, "USD")
                 IN  Ok(IF invert THEN InvertAmount(a) ELSE a)

----------------------------------------------------------------------------
(* Tokens handed to ParseAmount: markers, then a number text, then an      *)
(* optional closing parenthesis.                                           *)

RECURSIVE SeqsUpTo(_, _)
SeqsUpTo(S, n) ==
    IF n = 0 THEN {<<>>}
    ELSE LET shorter == SeqsUpTo(S, n - 1)
         IN  shorter \cup {Append(q, c) : q \in shorter, c \in S}

MarkerChars == {"(", "-", " ", "$"}
BodyChars == {"0", "1", ",", "."}

Markers == SeqsUpTo(MarkerChars, MaxMarkers)
Bodies == SeqsUpTo(BodyChars, MaxBody)
Closers == {<<>>, <<")">>}

----------------------------------------------------------------------------
(* datetime.date *)

Date(y, m, d) == [y |-> y, m |-> m, d |-> d]
NoDate == Date(0, 0, 0)

IsLeap(y) == y % 4 = 0 /\ (y % 100 /= 0 \/ y % 400 = 0)

DaysInMonth(y, m) ==
    IF m = 2 THEN (IF IsLeap(y) THEN 29 ELSE 28)
    ELSE IF m \in {4, 6, 9, 11} THEN 30 ELSE 31

IsValidDate(dt) == dt.m \in 1..12 /\ dt.d \in 1..DaysInMonth(dt.y, dt.m)

\* date.__lt__: (year, month, day) compared in order.
DateLT(a, b) ==
    \/ a.y < b.y
    \/ a.y = b.y /\ a.m < b.m
    \/ a.y = b.y /\ a.m = b.m /\ a.d < b.d

\* date.replace(year=...): the constructor raises ValueError when the day is
\* out of range for the month of the new year.
ReplaceYear(dt, y) ==
    IF IsValidDate(Date(y, dt.m, dt.d)) THEN Ok(Date(y, dt.m, dt.d))
    ELSE Raise("ValueError", "day is out of range for month")

Years == FirstYear..LastYear
AllDates == {dt \in [y : Years, m : 1..12, d : 1..31] : IsValidDate(dt)}
\* the days of each month the year-boundary calls are drawn from
SampleDays == {1, 5, 28, 29, 30, 31}
SampleDates == {dt \in AllDates : dt.d \in SampleDays}

----------------------------------------------------------------------------
(* pdf.AdjustDateForYearBoundary *)

AdjustDateForYearBoundary(to_adjust_, latest_date_) ==
    IF DateLT(to_adjust_, latest_date_) THEN Ok(to_adjust_)
    ELSE ReplaceYear(to_adjust_, to_adjust_.y - 1)

\* datetime.date.toordinal: days since 0001-01-01, that day being 1.
DaysBeforeYear(y) ==
    (y - 1) * 365 + (y - 1) \div 4 - (y - 1) \div 100 + (y - 1) \div 400

RECURSIVE DaysBeforeMonth(_, _)
DaysBeforeMonth(y, m) ==
    IF m = 1 THEN 0 ELSE DaysBeforeMonth(y, m - 1) + DaysInMonth(y, m - 1)

ToOrdinal(dt) == DaysBeforeYear(dt.y) + DaysBeforeMonth(dt.y, dt.m) + dt.d

\* datetime.date.fromordinal
FromOrdinal(n) ==
    LET y == CHOOSE yy \in (n \div 366)..(n \div 365 + 1) :
                 DaysBeforeYear(yy) < n /\ n <= DaysBeforeYear(yy + 1)
        doy == n - DaysBeforeYear(y)
        m == CHOOSE mm \in 1..12 :
                 /\ DaysBeforeMonth(y, mm) < doy
                 /\ doy <= DaysBeforeMonth(y, mm) + DaysInMonth(y, mm)
    IN  Date(y, m, doy - DaysBeforeMonth(y, m))

\* date + datetime.timedelta(days=n)
DatePlusDays(dt, n) == FromOrdinal(ToOrdinal(dt) + n)

----------------------------------------------------------------------------
(* The statement text *)

\* "Account Number: dddd dddd dddd dddd"
AccountLine(num) == [kind |-> "Account Number", num |-> num]
\* "New Balance Total  <amount>"
BalanceLine(tok) == [kind |-> "New Balance Total", amount |-> tok]
\* "Statement Closing Date mm/dd/yy"
ClosingLine(dt) == [kind |-> "Statement Closing Date", date |-> dt]
\* "mm/dd mm/dd <description> dddd dddd <amount>"; the description is a
\* sequence of pieces, a line break inside it being the piece "\n"
RowLine(m, d, descr, tok) ==
    [kind |-> "row", date |-> Date(0, m, d), descr |-> descr, amount |-> tok]

\* re.finditer: the lines the pattern matches, in the order of the text
finditer(pattern, text) == SelectSeq(text, LAMBDA line : line.kind = pattern)

\* str.replace("\n", " ")
RemoveNewlines(string) ==
    [i \in 1..Len(string) |-> IF string[i] = "\n" THEN " " ELSE string[i]]

\* dateutil parser.parse(...).date() of a date written with its year
ParseFullDate(dt) ==
    IF IsValidDate(dt) THEN Ok(dt)
    ELSE Raise("ValueError", "day is out of range for month")

\* dateutil parser.parse(...).date() of "mm/dd": the fields the text lacks
\* are taken from the default, which is today, so the year is the clock's.
ParseMonthDay(dt, year) == ParseFullDate(Date(year, dt.m, dt.d))

Transaction(date, descr, amount) ==
    [date |-> date, descr |-> descr, amount |-> amount]

----------------------------------------------------------------------------
(* The Bank of America credit card rule set: parsers.BankOfAmericaCreditCard *)
(* and bank_of_america_credit_card.Read                                      *)

_account_no(match) == Ok(match.num)

_balance(match) ==
    LET b == ParseAmount(match.amount)
    IN  IF b.tag /= "ok" THEN b ELSE Ok(InvertAmount(b.val))

_closing(match) == ParseFullDate(match.date)

\* Read keeps the description as matched; the parsers module replaces its
\* line breaks.
_transaction(match, closing, year, who) ==
    LET parsed == ParseMonthDay(match.date, year)
        date == IF parsed.tag /= "ok" THEN parsed
                ELSE AdjustDateForYearBoundary(parsed.val, closing)
        descr == IF who = "Read" THEN match.descr
                 ELSE RemoveNewlines(match.descr)
        amt == ParseAmount(match.amount)
    IN  IF date.tag /= "ok" THEN date
        ELSE IF amt.tag /= "ok" THEN amt
        ELSE Ok(Transaction(date.val, descr, InvertAmount(amt.val)))

----------------------------------------------------------------------------
(* The transforms of the other rule sets of the parsers module *)

\* dateutil parser.parse(...).date(): a text without a year takes today's
ParseDate(dt, year) ==
    IF dt.y = 0 THEN ParseMonthDay(dt, year) ELSE ParseFullDate(dt)

\* parsers.AmericanExpressCC
AmericanExpressCC_balance(match) ==
    LET b == ParseAmount(match.amount)
    IN  IF b.tag /= "ok" THEN b ELSE Ok(InvertAmount(b.val))

\* the _transaction of AmericanExpressCC without the inversion
AmericanExpressCC_transactionAsPrinted(match, closing, year) ==
    LET parsed == ParseDate(match.date, year)
        date == IF parsed.tag /= "ok" THEN parsed
                ELSE AdjustDateForYearBoundary(parsed.val, closing)
        amt == ParseAmount(match.amount)
    IN  IF date.tag /= "ok" THEN date
        ELSE IF amt.tag /= "ok" THEN amt
        ELSE Ok(Transaction(date.val, RemoveNewlines(match.descr), amt.val))

AmericanExpressCC_transaction(match, closing, year) ==
    LET parsed == ParseDate(match.date, year)
        date == IF parsed.tag /= "ok" THEN parsed
                ELSE AdjustDateForYearBoundary(parsed.val, closing)
        amt == ParseAmount(match.amount)
    IN  IF date.tag /= "ok" THEN date
        ELSE IF amt.tag /= "ok" THEN amt
        ELSE Ok(Transaction(date.val, RemoveNewlines(match.descr),
                            InvertAmount(amt.val)))

\* parsers.BankOfAmericaBank: an asset account, nothing is inverted
BankOfAmericaBank_balance(match) == ParseAmount(match.amount)

BankOfAmericaBank_transaction(match, closing, year) ==
    LET parsed == ParseDate(match.date, year)
        date == IF parsed.tag /= "ok" THEN parsed
                ELSE AdjustDateForYearBoundary(parsed.val, closing)
        amt == ParseAmount(match.amount)
    IN  IF date.tag /= "ok" THEN date
        ELSE IF amt.tag /= "ok" THEN amt
        ELSE Ok(Transaction(date.val, RemoveNewlines(match.descr), amt.val))

\* the _transaction of parsers.CapitalOneBank: inverted on a "-" sign
CapitalOneBank_transaction(match, closing, year) ==
    LET parsed == ParseDate(match.date, year)
        date == IF parsed.tag /= "ok" THEN parsed
                ELSE AdjustDateForYearBoundary(parsed.val, closing)
        amt == ParseAmount(match.amount)
    IN  IF date.tag /= "ok" THEN date
        ELSE IF amt.tag /= "ok" THEN amt
        ELSE Ok(Transaction(date.val, RemoveNewlines(match.descr),
                            IF match.sign = "-" THEN InvertAmount(amt.val)
                            ELSE amt.val))

\* parsers.CapitalOneCreditCard
CapitalOneCreditCard_balance(match) ==
    LET b == ParseAmount(match.amount)
    IN  IF b.tag /= "ok" THEN b ELSE Ok(InvertAmount(b.val))

CapitalOneCreditCard_transaction(match, closing, year) ==
    LET parsed == ParseDate(match.date, year)
        date == IF parsed.tag /= "ok" THEN parsed
                ELSE AdjustDateForYearBoundary(parsed.val, closing)
        amt == ParseAmount(match.amount)
    IN  IF date.tag /= "ok" THEN date
        ELSE IF amt.tag /= "ok" THEN amt
        ELSE Ok(Transaction(date.val, RemoveNewlines(match.descr),
                            InvertAmount(amt.val)))

\* parsers.ChaseCC
ChaseCC_balance(match) ==
    LET b == ParseAmount(match.amount)
    IN  IF b.tag /= "ok" THEN b ELSE Ok(InvertAmount(b.val))

\* pdf.ParseAmount(match.group(1), currency=rewards_currency): ParseAmount(s)
\* has the one parameter s, so the call raises TypeError before it runs
ChaseCC_rewards_balance(match, currency) ==
    Raise("TypeError", "ParseAmount() got an unexpected keyword argument 'currency'")

\* the order number, when the row has one, is appended to the description
ChaseCC_transaction(match, closing, year) ==
    LET parsed == ParseDate(match.date, year)
        date == IF parsed.tag /= "ok" THEN parsed
                ELSE AdjustDateForYearBoundary(parsed.val, closing)
        descr == RemoveNewlines(match.descr)
        amt == ParseAmount(match.amount)
    IN  IF date.tag /= "ok" THEN date
        ELSE IF amt.tag /= "ok" THEN amt
        ELSE Ok(Transaction(date.val,
                            IF match.order /= "" THEN descr \o <<". ", match.order>>
                            ELSE descr,
                            InvertAmount(amt.val)))

----------------------------------------------------------------------------
(* The extraction primitives of the parsers module.  A parser is the       *)
(* function handed to them, named by its __name__; env holds the variables *)
(* its closure captured.                                                   *)

CallParser(parser, match, env) ==
    CASE parser = "<lambda>" -> _account_no(match)
      [] parser = "_closing" -> _closing(match)
      [] parser = "_rewards_balance" ->
             ChaseCC_rewards_balance(match, env.rewards_currency)
      [] parser = "_balance" ->
             CASE env.importer = "AmericanExpressCC" ->
                      AmericanExpressCC_balance(match)
               [] env.importer = "BankOfAmericaBank" ->
                      BankOfAmericaBank_balance(match)
               [] env.importer = "CapitalOneCreditCard" ->
                      CapitalOneCreditCard_balance(match)
               [] env.importer = "ChaseCC" -> ChaseCC_balance(match)
               [] OTHER -> _balance(match)
      [] parser = "_transaction" ->
             CASE env.importer = "AmericanExpressCC" ->
                      AmericanExpressCC_transaction(
                          match, env.closing_date, env.current_year)
               [] env.importer = "BankOfAmericaBank" ->
                      BankOfAmericaBank_transaction(
                          match, env.closing_date, env.current_year)
               [] env.importer = "CapitalOneBank" ->
                      CapitalOneBank_transaction(
                          match, env.closing_date, env.current_year)
               [] env.importer = "CapitalOneCreditCard" ->
                      CapitalOneCreditCard_transaction(
                          match, env.closing_date, env.current_year)
               [] env.importer = "ChaseCC" ->
                      ChaseCC_transaction(
                          match, env.closing_date, env.current_year)
               [] OTHER ->
                      _transaction(match, env.closing_date, env.current_year,
                                   env.importer)

\* the __eq__ of the values a parser returns
ResultEq(parser, a, b) ==
    IF parser \in {"_balance", "_rewards_balance"} THEN AmountEq(a, b) ELSE a = b

\* the index of the first call that raised, 0 if none did
FirstRaised(rs) ==
    IF \A i \in 1..Len(rs) : rs[i].tag = "ok" THEN 0
    ELSE CHOOSE i \in 1..Len(rs) :
             rs[i].tag /= "ok" /\ \A j \in 1..(i - 1) : rs[j].tag = "ok"

\* parser(match) for each match of the pattern, in the order of the text
ParseMatches(matches, parser, env) ==
    [i \in 1..Len(matches) |-> CallParser(parser, matches[i], env)]

\* what is left of reduceSingleMatch once each match is transformed: the
\* results go into a set, which keeps one of any values that are equal
ReduceResults(rs, parser) ==
    LET raised == FirstRaised(rs)
        results == {i \in 1..Len(rs) :
                       \A j \in 1..(i - 1) : ~ResultEq(parser, rs[j].val, rs[i].val)}
    IN  IF raised /= 0 THEN rs[raised]
        ELSE IF Cardinality(results) = 0
             THEN Raise("ValueError", <<parser, "found no matches">>)
        ELSE IF Cardinality(results) > 1
             THEN Raise("ValueError", <<parser, "found more than one match">>)
        ELSE Ok(rs[CHOOSE i \in results : TRUE].val)

\* parsers.reduceSingleMatch
reduceSingleMatch(pattern, parser, text, env) ==
    ReduceResults(ParseMatches(finditer(pattern, text), parser, env), parser)

\* what is left of parseAll once each match is transformed: the results are
\* appended in order
AppendResults(rs) ==
    LET raised == FirstRaised(rs)
    IN  IF raised /= 0 THEN rs[raised]
        ELSE Ok([i \in 1..Len(rs) |-> rs[i].val])

\* parsers.parseAll
parseAll(pattern, parser, text, env) ==
    AppendResults(ParseMatches(finditer(pattern, text), parser, env))

----------------------------------------------------------------------------
(* beancount.BeancountLedgerItems *)

FLAG_OKAY == "*"

\* data.new_metadata(self.filename, len(self.items))
_metadata(filename, its) == [filename |-> filename, lineno |-> Len(its)]

\* data.Transaction with its one data.Posting
DataTransaction(meta, date, narration, account, units) ==
    [type |-> "Transaction", meta |-> meta, date |-> date, flag |-> FLAG_OKAY,
     narration |-> narration, account |-> account, amount |-> units]

DataBalance(meta, date, account, amt) ==
    [type |-> "Balance", meta |-> meta, date |-> date,
     account |-> account, amount |-> amt]

\* AddTransactions putting each new directive in front of the earlier ones.
RECURSIVE AddTransactionsInFront(_, _, _, _)
AddTransactionsInFront(its, filename, account, txns) ==
    IF txns = <<>> THEN its
    ELSE AddTransactionsInFront(
             <<DataTransaction([filename |-> filename, lineno |-> Len(its)],
                               Head(txns).date, Head(txns).descr,
                               account, Head(txns).amount)>> \o its,
             filename, account, Tail(txns))

RECURSIVE AddTransactions(_, _, _, _)
AddTransactions(its, filename, account, txns) ==
    IF txns = <<>> THEN its
    ELSE AddTransactions(
             Append(its, DataTransaction(_metadata(filename, its),
                                         Head(txns).date, Head(txns).descr,
                                         account, Head(txns).amount)),
             filename, account, Tail(txns))

\* AddBalance dating the assertion on the closing date itself.
AddBalanceOnClosingDate(its, filename, account, closing, bal) ==
    Append(its, DataBalance([filename |-> filename, lineno |-> Len(its)],
                            closing, account, bal))

AddBalance(its, filename, account, closing, bal) ==
    Append(its, DataBalance(_metadata(filename, its),
                            DatePlusDays(closing, 1), account, bal))

\* data.entry_sortkey: the date, then the directive's type (a Balance before
\* the day's Transactions), then the line number
TypeOrder(type) == IF type = "Balance" THEN 0 - 1 ELSE 0

SortsBefore(a, b) ==
    \/ DateLT(a.date, b.date)
    \/ a.date = b.date /\ TypeOrder(a.type) < TypeOrder(b.type)
    \/ a.date = b.date /\ TypeOrder(a.type) = TypeOrder(b.type)
       /\ a.meta.lineno < b.meta.lineno

\* data.sorted(self.items): each item goes to the place that the number of
\* items sorting before it gives
SortedItems(its) ==
    [k \in 1..Len(its) |->
        its[CHOOSE i \in 1..Len(its) :
                Cardinality({j \in 1..Len(its) : SortsBefore(its[j], its[i])})
                    = k - 1]]

----------------------------------------------------------------------------
(* A caller of ParseAmount *)

\* no statement is being read
NoStatement ==
    /\ importer = "none"
    /\ current_year = 0
    /\ contents = <<>>
    /\ account_no = NotCalled
    /\ balance = NotCalled
    /\ closing_date = NotCalled
    /\ transactions = NotCalled
    /\ items = <<>>
    /\ error = NotCalled
    /\ returned = NotCalled

\* no importer with a configuration of its own is in use
NoRules ==
    /\ rewards_currency = "none"
    /\ rewards_balance = NotCalled
    /\ skip_accounts = [tag |-> "None"]
    /\ num_to_account = <<>>
    /\ accounts = NotCalled

\* no importer is asked to identify a file
NoIdentify ==
    /\ basename = "none"
    /\ account_numbers = {}
    /\ identified = NotCalled

\* the Vanguard script is not running
NoVanguard ==
    /\ account_type = "none"
    /\ pdfs = <<>>
    /\ path = "none"
    /\ sidecar = <<>>
    /\ tool_runs = <<>>
    /\ text_out = NotCalled
    /\ err = NotCalled
    /\ rows = <<>>

InitAmount ==
    /\ pc = "amount"
    /\ \E m \in Markers, b \in Bodies, c \in Closers : s = m \o b \o c
    /\ amount_out = NotCalled
    /\ to_adjust = NoDate
    /\ latest_date = NoDate
    /\ adjusted_out = NotCalled
    /\ NoStatement
    /\ NoRules
    /\ NoIdentify
    /\ NoVanguard

CallParseAmount ==
    /\ pc = "amount"
    /\ amount_out' = ParseAmount(s)
    /\ pc' = "done"
    /\ UNCHANGED <<s, to_adjust, latest_date, adjusted_out, stmtVars, ruleVars, idVars, vgVars>>

NextAmount == CallParseAmount

SpecAmount == InitAmount /\ [][NextAmount]_vars

----------------------------------------------------------------------------
(* A caller of AdjustDateForYearBoundary *)

InitDate ==
    /\ pc = "adjust"
    /\ s = <<>>
    /\ amount_out = NotCalled
    /\ to_adjust \in SampleDates
    /\ latest_date \in SampleDates
    /\ adjusted_out = NotCalled
    /\ NoStatement
    /\ NoRules
    /\ NoIdentify
    /\ NoVanguard

CallAdjustDate ==
    /\ pc = "adjust"
    /\ adjusted_out' = AdjustDateForYearBoundary(to_adjust, latest_date)
    /\ pc' = "done"
    /\ UNCHANGED <<s, amount_out, to_adjust, latest_date, stmtVars, ruleVars, idVars, vgVars>>

NextDate == CallAdjustDate

SpecDate == InitDate /\ [][NextDate]_vars

----------------------------------------------------------------------------
(* Reading one Bank of America credit card statement *)

\* parsers.AMOUNT, (?:-|- )?\$?[0-9,]+\.[0-9]{1,2}, and the AMOUNT of
\* bank_of_america_credit_card, -?\$?[0-9,]+\.[0-9]{1,2}
IsAMOUNT(tok, who) ==
    LET t1 == IF who /= "Read" /\ StartsWith(tok, <<"-", " ">>)
              THEN SubSeq(tok, 3, Len(tok))
              ELSE IF StartsWith(tok, <<"-">>) THEN Tail(tok) ELSE tok
        t2 == IF StartsWith(t1, <<"$">>) THEN Tail(t1) ELSE t1
        points == {i \in 1..Len(t2) : t2[i] = "."}
    IN  /\ Cardinality(points) = 1
        /\ \A i \in 1..Len(t2) : IsDigit(t2[i]) \/ t2[i] \in {",", "."}
        /\ \A p \in points :
               /\ p > 1
               /\ Len(t2) - p \in 1..2
               /\ \A i \in (p + 1)..Len(t2) : IsDigit(t2[i])

ACCOUNT == "Liabilities:BankOfAmerica:CashRewardsCC"
FILENAME == "eStmt_2021-01-04.pdf"
Importers == {"Read", "BankOfAmericaCreditCard"}

\* the lines statements are made of
AccountNumbers == {"1234 5678 9012 3456"}
BalanceTokens ==
    {tok \in {<<"$", "2", "5", "1", ".", "4", "9">>,
              <<"$", "1", ".", "5">>,
              <<"$", "1", ".", "5", "0">>} :
        \A who \in Importers : IsAMOUNT(tok, who)}
ClosingDates == {Date(2021, 1, 4), Date(2021, 12, 31)}
WholeFoods ==
    RowLine(12, 5, <<"WHOLE FOODS #1234 SF CA">>, <<"2", "5", "1", ".", "4", "9">>)
Rows ==
    {row \in {WholeFoods,
              RowLine(1, 4, <<"PAYMENT -", "\n", "THANK YOU">>,
                      <<"-", "1", "0", ".", "9", "9">>),
              RowLine(2, 29, <<"LEAP DAY CAFE">>, <<"$", "5", ".", "0", "0">>)} :
        \A who \in Importers : IsAMOUNT(row.amount, who)}

\* a statement is read on or after the year it closes in
ClockYears == {y \in Years : \A c \in ClosingDates : c.y <= y}

LinesOf(S, n) == SeqsUpTo(S, n)

InitStmt ==
    /\ importer \in Importers
    /\ pc = IF importer = "Read" THEN "balance" ELSE "account_no"
    /\ current_year \in ClockYears
    /\ \E accts \in LinesOf({AccountLine(n) : n \in AccountNumbers}, 1),
          bals \in LinesOf({BalanceLine(tok) : tok \in BalanceTokens}, MaxFactLines),
          closings \in LinesOf({ClosingLine(c) : c \in ClosingDates}, MaxFactLines),
          rowlines \in LinesOf(Rows, MaxRows) :
            /\ importer = "Read" => accts = <<>>
            /\ contents = accts \o closings \o bals \o rowlines
    /\ account_no = NotCalled
    /\ balance = NotCalled
    /\ closing_date = NotCalled
    /\ transactions = NotCalled
    /\ items = <<>>
    /\ error = NotCalled
    /\ returned = NotCalled
    /\ s = <<>>
    /\ amount_out = NotCalled
    /\ to_adjust = NoDate
    /\ latest_date = NoDate
    /\ adjusted_out = NotCalled
    /\ NoRules
    /\ NoIdentify
    /\ NoVanguard

\* the pattern each rule set hands to reduceSingleMatch for a fact, named by
\* the words it opens with
AccountPattern(who) ==
    IF who = "BankOfAmericaBank" THEN "Account number" ELSE "Account Number"

BalancePattern(who) ==
    CASE who = "AmericanExpressCC" -> "New Balance"
      [] who = "BankOfAmericaBank" -> "Ending balance on"
      [] who = "CapitalOneCreditCard" -> "New Balance ="
      [] who = "ChaseCC" -> "New Balance"
      [] OTHER -> "New Balance Total"

ClosingPattern(who) ==
    CASE who = "AmericanExpressCC" -> "Closing Date"
      [] who = "BankOfAmericaBank" -> "Ending balance on"
      [] who = "CapitalOneCreditCard" -> "days in Billing Cycle"
      [] who = "ChaseCC" -> "Opening/Closing Date"
      [] OTHER -> "Statement Closing Date"

\* the step that follows the closing balance: ChaseCC reads the rewards
\* balance before the closing date
AfterBalance(who) == IF who = "ChaseCC" THEN "rewards_balance" ELSE "closing"

\* what the closures of the read capture
Env ==
    [closing_date |-> IF closing_date.tag = "ok" THEN closing_date.val ELSE NoDate,
     current_year |-> current_year,
     importer |-> importer,
     rewards_currency |-> rewards_currency]

\* the step of the read after one that returned r; an exception ends the read
Continue(r, next) ==
    /\ pc' = IF r.tag = "ok" THEN next ELSE "failed"
    /\ error' = IF r.tag = "ok" THEN error ELSE r

ExtractAccountNo ==
    /\ pc = "account_no"
    /\ LET r == reduceSingleMatch(AccountPattern(importer), "<lambda>",
                                  contents, Env)
       IN  /\ account_no' = r
           /\ Continue(r, "balance")
    /\ UNCHANGED <<callVars, ruleVars, idVars, vgVars, importer, current_year, contents, balance,
                   closing_date, transactions, items, returned>>

ExtractBalance ==
    /\ pc = "balance"
    /\ LET r == reduceSingleMatch(BalancePattern(importer), "_balance",
                                  contents, Env)
       IN  /\ balance' = r
           /\ Continue(r, AfterBalance(importer))
    /\ UNCHANGED <<callVars, ruleVars, idVars, vgVars, importer, current_year, contents, account_no,
                   closing_date, transactions, items, returned>>

ExtractClosingDate ==
    /\ pc = "closing"
    /\ LET r == reduceSingleMatch(ClosingPattern(importer), "_closing",
                                  contents, Env)
       IN  /\ closing_date' = r
           /\ Continue(r, "transactions")
    /\ UNCHANGED <<callVars, ruleVars, idVars, vgVars, importer, current_year, contents, account_no,
                   balance, transactions, items, returned>>

ExtractTransactions ==
    /\ pc = "transactions"
    /\ LET r == parseAll("row", "_transaction", contents, Env)
       IN  /\ transactions' = r
           /\ Continue(r, "add_transactions")
    /\ UNCHANGED <<callVars, ruleVars, idVars, vgVars, importer, current_year, contents, account_no,
                   balance, closing_date, items, returned>>

CallAddTransactions ==
    /\ pc = "add_transactions"
    /\ items' = AddTransactions(items, FILENAME, ACCOUNT, transactions.val)
    /\ pc' = "add_balance"
    /\ UNCHANGED <<callVars, ruleVars, idVars, vgVars, importer, current_year, contents, account_no,
                   balance, closing_date, transactions, error, returned>>

CallAddBalance ==
    /\ pc = "add_balance"
    /\ items' = AddBalance(items, FILENAME, ACCOUNT, closing_date.val, balance.val)
    /\ pc' = "return"
    /\ UNCHANGED <<callVars, ruleVars, idVars, vgVars, importer, current_year, contents, account_no,
                   balance, closing_date, transactions, error, returned>>

\* Read returns l.items; the importer's extract returns l.SortedItems()
ReturnItems ==
    /\ pc = "return"
    /\ returned' = IF importer = "Read" THEN Ok(items) ELSE Ok(SortedItems(items))
    /\ pc' = "done"
    /\ UNCHANGED <<callVars, ruleVars, idVars, vgVars, importer, current_year, contents, account_no,
                   balance, closing_date, transactions, items, error>>

NextStmt ==
    \/ ExtractAccountNo
    \/ ExtractBalance
    \/ ExtractClosingDate
    \/ ExtractTransactions
    \/ CallAddTransactions
    \/ CallAddBalance
    \/ ReturnItems

SpecStmt == InitStmt /\ [][NextStmt]_vars

----------------------------------------------------------------------------
(* The ledger builder on its own: any closing date, any transactions *)

LedgerBalance == Amount(Dec(TRUE, 25149, 2), "USD")
LedgerTransactions ==
    {Transaction(Date(FirstYear, 12, 5), <<"WHOLE FOODS #1234 SF CA">>,
                 Amount(Dec(TRUE, 25149, 2), "USD")),
     Transaction(Date(FirstYear, 1, 4), <<"PAYMENT - THANK YOU">>,
                 Amount(Dec(FALSE, 1099, 2), "USD"))}

InitLedger ==
    /\ pc = "add_transactions"
    /\ importer \in Importers
    /\ current_year = 0
    /\ contents = <<>>
    /\ account_no = NotCalled
    /\ balance = Ok(LedgerBalance)
    /\ closing_date \in {Ok(dt) : dt \in AllDates}
    /\ transactions \in {Ok(txns) : txns \in SeqsUpTo(LedgerTransactions, MaxRows)}
    /\ items = <<>>
    /\ error = NotCalled
    /\ returned = NotCalled
    /\ s = <<>>
    /\ amount_out = NotCalled
    /\ to_adjust = NoDate
    /\ latest_date = NoDate
    /\ adjusted_out = NotCalled
    /\ NoRules
    /\ NoIdentify
    /\ NoVanguard

NextLedger ==
    \/ CallAddTransactions
    \/ CallAddBalance
    \/ ReturnItems

SpecLedger == InitLedger /\ [][NextLedger]_vars

----------------------------------------------------------------------------
(* Reading one statement with each of the other rule sets of the parsers   *)
(* module, through its importer                                            *)

RuleSets == {"AmericanExpressCC", "BankOfAmericaBank",
             "BankOfAmericaCreditCard", "CapitalOneCreditCard", "ChaseCC"}

\* a line stating a fact: the words of the pattern, then a date, an amount
\* or both
FactLine(kind, dt, tok) == [kind |-> kind, date |-> dt, amount |-> tok]
\* "Account number: dddd dddd dddd", "Account Number: dddd dddd dddd dddd"
NumberLine(who) ==
    [kind |-> AccountPattern(who),
     num |-> IF who = "BankOfAmericaBank" THEN "0001 0002 0003"
             ELSE "1234 5678 9012 3456"]
\* "Total points available for", "redemption 3,243"
RewardsLine(tok) == [kind |-> "Total points available for", amount |-> tok]
\* a transaction row; its date has a year (AmericanExpressCC,
\* BankOfAmericaBank) or has none, and a ChaseCC row may end in an order number
RuleRowLine(dt, descr, tok, order) ==
    [kind |-> "row", date |-> dt, descr |-> descr, amount |-> tok,
     order |-> order]

RulesClosing == Date(2021, 1, 22)
RulesBalanceTokens ==
    {<<"$", "2", "5", "1", ".", "4", "9">>, <<"-", "$", "3", ".", "0", "0">>}
RewardsTokens == {<<"3", ",", "2", "4", "3">>, <<"1", "0", "0">>}
RewardsCurrencies == {"POINTS", "UR"}

\* the rows of each rule set's statements
RuleRows(who) ==
    CASE who = "AmericanExpressCC" ->
             {RuleRowLine(Date(2021, 1, 20),
                          <<"PHOTOGPHY PLAN NEW YORK NY", "\n", "PHOTO.LY/URL">>,
                          <<"$", "1", ".", "9", "9">>, ""),
              RuleRowLine(Date(2020, 12, 30), <<"ONLINE PAYMENT - THANK YOU">>,
                          <<"-", "$", "1", "0", ".", "0", "0">>, "")}
      [] who = "BankOfAmericaBank" ->
             {RuleRowLine(Date(2021, 1, 4),
                          <<"Bank of America DES:CASHREWARD", "\n", "ID:234567890123 PPD">>,
                          <<"8", "5", ".", "5", "1">>, ""),
              RuleRowLine(Date(2021, 1, 5), <<"CHECKCARD 0104 GROCER">>,
                          <<"-", "2", "0", ".", "0", "0">>, "")}
      [] who = "BankOfAmericaCreditCard" ->
             {RuleRowLine(Date(0, 12, 5), <<"WHOLE FOODS #1234 SF CA">>,
                          <<"2", "5", "1", ".", "4", "9">>, ""),
              RuleRowLine(Date(0, 1, 4), <<"PAYMENT -", "\n", "THANK YOU">>,
                          <<"-", "1", "0", ".", "9", "9">>, "")}
      [] who = "CapitalOneCreditCard" ->
             {RuleRowLine(Date(0, 12, 30), <<"NYTimes*NYTimes 800-698-4637NY">>,
                          <<"$", "1", "0", ".", "0", "0">>, ""),
              RuleRowLine(Date(0, 1, 2), <<"AMZN Mktp", "\n", "CA*AB1234567AMAZON.CAWA">>,
                          <<"$", "4", "6", ".", "5", "6">>, "")}
      [] who = "ChaseCC" ->
             {RuleRowLine(Date(0, 1, 1), <<"AUTOMATIC PAYMENT - THANK YOU">>,
                          <<"-", "1", "0", ".", "9", "9">>, ""),
              RuleRowLine(Date(0, 12, 20), <<"AMAZON MARKETPLACE AMZN.COM/BILLWA">>,
                          <<"3", "2", ".", "4", "3">>, "")}

\* the step a rule set starts with
FirstStep(who) ==
    IF who \in {"BankOfAmericaBank", "BankOfAmericaCreditCard"}
    THEN "account_no" ELSE "balance"

InitRules ==
    /\ importer \in RuleSets
    /\ pc = FirstStep(importer)
    /\ current_year \in {RulesClosing.y, RulesClosing.y + 1}
    /\ rewards_currency \in
           IF importer = "ChaseCC" THEN RewardsCurrencies ELSE {"none"}
    /\ \E accts \in LinesOf({NumberLine(importer)}, 1),
          bals \in LinesOf(RulesBalanceTokens, 1),
          closings \in LinesOf({RulesClosing}, 1),
          rewards \in LinesOf({RewardsLine(tok) : tok \in RewardsTokens}, 1),
          rowlines \in LinesOf(RuleRows(importer), MaxRows) :
            /\ FirstStep(importer) /= "account_no" => accts = <<>>
            /\ importer /= "ChaseCC" => rewards = <<>>
            /\ importer = "BankOfAmericaBank" => Len(bals) = Len(closings)
            /\ contents =
                   IF importer = "BankOfAmericaBank"
                   THEN accts
                        \o [i \in 1..Len(bals) |->
                               FactLine("Ending balance on", closings[i], bals[i])]
                        \o rowlines
                   ELSE accts
                        \o [i \in 1..Len(closings) |->
                            FactLine(ClosingPattern(importer), closings[i], <<>>)]
                        \o [i \in 1..Len(bals) |->
                               FactLine(BalancePattern(importer), NoDate, bals[i])]
                        \o rewards \o rowlines
    /\ rewards_balance = NotCalled
    /\ skip_accounts = [tag |-> "None"]
    /\ num_to_account = <<>>
    /\ accounts = NotCalled
    /\ account_no = NotCalled
    /\ balance = NotCalled
    /\ closing_date = NotCalled
    /\ transactions = NotCalled
    /\ items = <<>>
    /\ error = NotCalled
    /\ returned = NotCalled
    /\ s = <<>>
    /\ amount_out = NotCalled
    /\ to_adjust = NoDate
    /\ latest_date = NoDate
    /\ adjusted_out = NotCalled
    /\ NoIdentify
    /\ NoVanguard

\* rewards_balance = reduceSingleMatch(..., _rewards_balance, contents)
ExtractRewardsBalance ==
    /\ pc = "rewards_balance"
    /\ LET r == reduceSingleMatch("Total points available for",
                                  "_rewards_balance", contents, Env)
       IN  /\ rewards_balance' = r
           /\ Continue(r, "closing")
    /\ UNCHANGED <<callVars, idVars, vgVars, importer, current_year, contents,
                   account_no, balance, closing_date, transactions, items,
                   returned, rewards_currency, skip_accounts, num_to_account,
                   accounts>>

NextRules ==
    \/ ExtractAccountNo
    \/ ExtractBalance
    \/ ExtractRewardsBalance
    \/ ExtractClosingDate
    \/ ExtractTransactions
    \/ CallAddTransactions
    \/ CallAddBalance
    \/ ReturnItems

SpecRules == InitRules /\ [][NextRules]_vars

----------------------------------------------------------------------------
(* The Capital One bank rule set: parsers.CapitalOneBank, a statement of   *)
(* several accounts, and the importer beancount.CapitalOneBank             *)

\* "Jan 1 - Jan 31, 2021"
PeriodLine(dt) == [kind |-> "period", date |-> dt]
\* "360 Checking - 12345678"
SectionLine(num) == [kind |-> "section", num |-> num]
\* "Jan 1 Opening Balance <amount>"
OpeningLine(tok) == [kind |-> "Opening Balance", amount |-> tok]
\* "Jan 31 Closing Balance <amount>"
ClosingBalanceLine(tok) == [kind |-> "Closing Balance", amount |-> tok]
\* "Jan 6 <description> Debit - <amount> <balance>"
SectionRowLine(m, d, descr, sign, tok) ==
    [kind |-> "row", date |-> Date(0, m, d), descr |-> descr,
     sign |-> sign, amount |-> tok]

Min(S) == CHOOSE x \in S : \A y \in S : x <= y

\* the lines of the kind after line i
LinesAfter(text, i, kind) == {k \in (i + 1)..Len(text) : text[k].kind = kind}

\* section_expr matches from a section line through the first Opening
\* Balance line after it to the first Closing Balance line after that
SectionStarts(text, from) ==
    {i \in from..Len(text) :
        /\ text[i].kind = "section"
        /\ \E j \in LinesAfter(text, i, "Opening Balance") :
               LinesAfter(text, j, "Closing Balance") /= {}}

SectionAt(text, i) ==
    LET j == Min(LinesAfter(text, i, "Opening Balance"))
        k == Min(LinesAfter(text, j, "Closing Balance"))
    IN  [acct_num |-> text[i].num,
         transactions |-> SubSeq(text, j + 1, k - 1),
         balance |-> text[k].amount,
         end |-> k]

\* section_expr.finditer(contents): the matches, none overlapping, in order
RECURSIVE SectionMatches(_, _)
SectionMatches(text, from) ==
    IF SectionStarts(text, from) = {} THEN <<>>
    ELSE <<SectionAt(text, Min(SectionStarts(text, from)))>>
             \o SectionMatches(text,
                    SectionAt(text, Min(SectionStarts(text, from))).end + 1)

CapitalOneBankAccount(num, bal, closing, txns) ==
    [num |-> num, balance |-> bal, closing_date |-> closing,
     transactions |-> txns]

\* what the body of the loop over the sections appends for one section,
\* given what ParseAmount and parseAll returned for it
AccountOf(section, closing, bal, txns) ==
    IF bal.tag /= "ok" THEN bal
    ELSE IF txns.tag /= "ok" THEN txns
    ELSE Ok(CapitalOneBankAccount(section.acct_num, bal.val, closing, txns.val))

SectionAccount(section, closing, year) ==
    AccountOf(section, closing, ParseAmount(section.balance),
              parseAll("row", "_transaction", section.transactions,
                       [closing_date |-> closing, current_year |-> year,
                        importer |-> "CapitalOneBank",
                        rewards_currency |-> "none"]))

SectionAccounts(sections, closing, year) ==
    [i \in 1..Len(sections) |-> SectionAccount(sections[i], closing, year)]

\* the accounts of the statement once its closing date is known
AccountsClosing(text, closing, year) ==
    IF closing.tag /= "ok" THEN closing
    ELSE AppendResults(SectionAccounts(SectionMatches(text, 1), closing.val, year))

\* parsers.CapitalOneBank: the closing date is the one of the first period
\* line; no check is made that any section matched
CapitalOneBank(text, year) ==
    IF finditer("period", text) = <<>>
    THEN Raise("ValueError", "could not find closing date")
    ELSE AccountsClosing(text, ParseFullDate(Head(finditer("period", text)).date),
                         year)

CAPITAL_ONE_BANK_FILENAME == "statement.pdf"

\* self.num_to_account.get(num, "Unknown") in the place of the lookup
LookupAccountOrDefault(n2a, num) ==
    IF num \in DOMAIN n2a THEN Ok(n2a[num]) ELSE Ok("Unknown")

\* self.num_to_account[acct_row.num], a KeyError re-raised with a message
LookupAccount(n2a, num) ==
    IF num \in DOMAIN n2a THEN Ok(n2a[num])
    ELSE Raise("KeyError", <<"no account defined for", num>>)

\* the loop with the lookup made before the skip list is consulted
RECURSIVE ExtractAccountsLookupFirst(_, _, _, _, _)
ExtractAccountsLookupFirst(its, filename, accts, skip, n2a) ==
    IF accts = <<>> THEN [items |-> its, error |-> NotCalled]
    ELSE IF LookupAccount(n2a, Head(accts).num).tag /= "ok"
    THEN [items |-> its, error |-> LookupAccount(n2a, Head(accts).num)]
    ELSE IF skip.tag /= "None" /\ Head(accts).num \in skip.val
    THEN ExtractAccountsLookupFirst(its, filename, Tail(accts), skip, n2a)
    ELSE ExtractAccountsLookupFirst(
             AddBalance(AddTransactions(its, filename,
                                        LookupAccount(n2a, Head(accts).num).val,
                                        Head(accts).transactions),
                        filename, LookupAccount(n2a, Head(accts).num).val,
                        Head(accts).closing_date, Head(accts).balance),
             filename, Tail(accts), skip, n2a)

\* the loop of CapitalOneBank.extract over the accounts parsed: l.items as it
\* stands when the loop ends, and the exception that ended it, if any
RECURSIVE ExtractAccounts(_, _, _, _, _)
ExtractAccounts(its, filename, accts, skip, n2a) ==
    IF accts = <<>> THEN [items |-> its, error |-> NotCalled]
    ELSE IF skip.tag /= "None" /\ Head(accts).num \in skip.val
    THEN ExtractAccounts(its, filename, Tail(accts), skip, n2a)
    ELSE IF LookupAccount(n2a, Head(accts).num).tag /= "ok"
    THEN [items |-> its, error |-> LookupAccount(n2a, Head(accts).num)]
    ELSE ExtractAccounts(
             AddBalance(AddTransactions(its, filename,
                                        LookupAccount(n2a, Head(accts).num).val,
                                        Head(accts).transactions),
                        filename, LookupAccount(n2a, Head(accts).num).val,
                        Head(accts).closing_date, Head(accts).balance),
             filename, Tail(accts), skip, n2a)

----------------------------------------------------------------------------
(* Reading one Capital One bank statement with beancount.CapitalOneBank *)

CapitalOneNumbers == {"11111111", "22222222"}
CapitalOneAccount(num) ==
    IF num = "11111111" THEN "Assets:CapitalOne:Checking"
    ELSE "Assets:CapitalOne:Savings"
CapitalOneClosing == Date(2021, 1, 31)

\* the transaction rows of a section
SectionRows ==
    {<<>>,
     <<SectionRowLine(1, 6, <<"Zelle money sent to GOOD FRIEND">>, "-",
                      <<"$", "3", ".", "0", "0">>)>>,
     <<SectionRowLine(1, 6, <<"Zelle money sent to GOOD FRIEND">>, "-",
                      <<"$", "3", ".", "0", "0">>),
       SectionRowLine(1, 7, <<"Deposit from", "\n", "EMPLOYER">>, "+",
                      <<"$", "5", ".", "0", "0">>)>>}

\* the lines of one account section; its Closing Balance line may be missing
SectionTexts ==
    {<<SectionLine(num), OpeningLine(<<"$", "0", ".", "0", "0">>)>>
         \o rowlines \o closing :
        num \in CapitalOneNumbers, rowlines \in SectionRows,
        closing \in {<<>>, <<ClosingBalanceLine(<<"$", "2", ".", "0", "0">>)>>}}

RECURSIVE Flatten(_)
Flatten(seqs) == IF seqs = <<>> THEN <<>> ELSE Head(seqs) \o Flatten(Tail(seqs))

\* the dicts a caller may hand over as num_to_account
NumToAccounts ==
    {[num \in nums |-> CapitalOneAccount(num)] : nums \in SUBSET CapitalOneNumbers}

SkipAccounts ==
    {[tag |-> "None"]} \cup
    {[tag |-> "set", val |-> nums] : nums \in SUBSET CapitalOneNumbers}

InitCapitalOne ==
    /\ pc = "parse"
    /\ importer = "CapitalOneBank"
    /\ current_year \in {CapitalOneClosing.y, CapitalOneClosing.y + 1}
    /\ \E periods \in LinesOf({PeriodLine(CapitalOneClosing)}, 1),
          sections \in SeqsUpTo(SectionTexts, MaxSections) :
            contents = periods \o Flatten(sections)
    /\ skip_accounts \in SkipAccounts
    /\ num_to_account \in NumToAccounts
    /\ accounts = NotCalled
    /\ rewards_currency = "none"
    /\ rewards_balance = NotCalled
    /\ account_no = NotCalled
    /\ balance = NotCalled
    /\ closing_date = NotCalled
    /\ transactions = NotCalled
    /\ items = <<>>
    /\ error = NotCalled
    /\ returned = NotCalled
    /\ s = <<>>
    /\ amount_out = NotCalled
    /\ to_adjust = NoDate
    /\ latest_date = NoDate
    /\ adjusted_out = NotCalled
    /\ NoIdentify
    /\ NoVanguard

\* accounts = parsers.CapitalOneBank(f.name)
CapitalOneBankParse ==
    /\ pc = "parse"
    /\ accounts' = CapitalOneBank(contents, current_year)
    /\ Continue(accounts', "project")
    /\ UNCHANGED <<callVars, idVars, vgVars, importer, current_year, contents,
                   account_no, balance, closing_date, transactions, items,
                   returned, rewards_currency, rewards_balance, skip_accounts,
                   num_to_account>>

\* the loop of extract; a KeyError leaves it, and extract, at once
CapitalOneBankProject ==
    /\ pc = "project"
    /\ items' = ExtractAccounts(items, CAPITAL_ONE_BANK_FILENAME, accounts.val,
                                skip_accounts, num_to_account).items
    /\ error' = ExtractAccounts(items, CAPITAL_ONE_BANK_FILENAME, accounts.val,
                                skip_accounts, num_to_account).error
    /\ pc' = IF error'.tag = "none" THEN "return" ELSE "failed"
    /\ UNCHANGED <<callVars, ruleVars, idVars, vgVars, importer, current_year, contents,
                   account_no, balance, closing_date, transactions, returned>>

NextCapitalOne ==
    \/ CapitalOneBankParse
    \/ CapitalOneBankProject
    \/ ReturnItems

SpecCapitalOne == InitCapitalOne /\ [][NextCapitalOne]_vars

----------------------------------------------------------------------------
(* vanguard_pdf_to_txns: the text of a PDF and its '.txt' sidecar *)

\* most lines of the text of one PDF
MaxLines == 2
\* most runs of pdftotext on one PDF
MaxToolRuns == 2

\* the end of a transaction row: "<shares> <price> <amount>", each amount
\* with the sign printed in front of it, if any ("en-dash " stands for
\* U+2013 and a space)
RowTail(sharessign, shares, price, amountsign, amt) ==
    [sharessign |-> sharessign, shares |-> shares, price |-> price,
     amountsign |-> amountsign, amount |-> amt]
NoTail == RowTail("", <<>>, <<>>, "", <<>>)

\* a line of the text: a date in front, or none; the words of the fund, the
\* transaction type and (retirement accounts) the source; the row's end, or
\* none
TextLine(dt, fund, type, source, tail) ==
    [date |-> dt, fund |-> fund, type |-> type, source |-> source,
     tail |-> tail]

\* the file out_filename does not exist
NoFile == [tag |-> "none"]

\* what running pdftotext may come to: the exit status, whether the output
\* file was written, and what the tool printed
ToolOutcome(status, wrote, output) ==
    [status |-> status, wrote |-> wrote, output |-> output]
ToolOutcomes ==
    {ToolOutcome(0, TRUE, ""), ToolOutcome(0, TRUE, "Syntax Warning"),
     ToolOutcome(1, FALSE, ""), ToolOutcome(1, TRUE, "")}

\* pdfToText with the test of os.path.exists left out
pdfToTextAlwaysConverts(file, outcome, pdftext) ==
    [ran |-> TRUE,
     file |-> IF outcome.wrote THEN Ok(pdftext) ELSE file,
     result |-> IF outcome.status /= 0
                THEN Raise("CalledProcessError", outcome.status)
                ELSE IF outcome.output /= ""
                THEN Raise("RuntimeError", outcome.output)
                ELSE Ok(pdftext)]

\* pdfToText(filename), file being out_filename as it stands: whether
\* pdftotext ran, out_filename afterwards, and what the call returned or
\* raised.  check_output raises CalledProcessError on a non-zero exit status.
pdfToText(file, outcome, pdftext) ==
    IF file /= NoFile
    THEN [ran |-> FALSE, file |-> file, result |-> file]
    ELSE [ran |-> TRUE,
          file |-> IF outcome.wrote THEN Ok(pdftext) ELSE file,
          result |-> IF outcome.status /= 0
                     THEN Raise("CalledProcessError", outcome.status)
                     ELSE IF outcome.output /= ""
                     THEN Raise("RuntimeError", outcome.output)
                     ELSE Ok(pdftext)]

----------------------------------------------------------------------------
(* vanguard_pdf_to_txns: the rows of a statement *)

\* Decimal.__neg__: the sign changes, zero staying positive
NegDecimal(d) == Dec(IF d.coef = 0 THEN FALSE ELSE ~d.neg, d.coef, d.scale)

\* Amount.__neg__
NegAmount(a) == Amount(NegDecimal(a.number), a.currency)

\* getBeancountAmount, on the two groups amountPattern captures
getBeancountAmount(sign, tok) ==
    IF sign /= "" THEN NegAmount(Amount(D(tok).val, "USD"))
    ELSE Amount(D(tok).val, "USD")

\* the number of shares: the commas removed, negated under a sign
SharesOf(sign, tok) ==
    IF sign /= "" THEN NegDecimal(DecimalOf(SelectSeq(tok, NotSeparator)))
    ELSE DecimalOf(SelectSeq(tok, NotSeparator))

MutualFundRow(date, fund, txn_type, shares, price, amt, filename) ==
    [date |-> date, fund |-> fund, txn_type |-> txn_type, shares |-> shares,
     price |-> price, amount |-> amt, filename |-> filename]

RetirementRow(date, txn_type, source, fund, shares, price, amt, filename) ==
    [date |-> date, txn_type |-> txn_type, source |-> source, fund |-> fund,
     shares |-> shares, price |-> price, amount |-> amt, filename |-> filename]

\* the transaction types new_row of parseMutualFundPDF looks for at the end
\* of the description
MutualFundTypes ==
    {"Dividend Received", "Buy", "Long-term capital gain",
     "Short-term capital gain", "Sell", "Conversion To", "Conversion From",
     "Transfer"}

\* txn_types of parseRetirementPDF, an alternative of the row pattern
txn_types ==
    {"Fee", "Miscellaneous Credits/Adjustment",
     "Source to Source/Fund to Fund Transfer Out",
     "Source to Source/Fund to Fund Transfer In", "Plan Contribution",
     "Plan Initiated TransferOut", "Plan Initiated TransferIn",
     "Dividends on Equity Investments", "Dividends on Equity",
     "Miscellaneous", "Fund to Fund Out", "Fund to Fund In"}

\* the types whose amount and shares are printed without their sign
ImpliedNegative ==
    {"Plan Initiated TransferOut",
     "Source to Source/Fund to Fund Transfer Out", "Fund to Fund Out", "Fee"}

\* RETIREMENT_SOURCE_TO_ACCOUNT, for the sources without a number in front
RetirementSources ==
    {"EMPLOYER MATCHING", "BONUS PRE-TAX 401(K)", "BONUS AFTER-TAX 401(K)",
     "PRE-TAX 401(K)", "AFTER-TAX 401(K)"}
RETIREMENT_SOURCE_TO_ACCOUNT(source) ==
    CASE source = "EMPLOYER MATCHING" -> "Match"
      [] source = "BONUS PRE-TAX 401(K)" -> "BonusPreTax"
      [] source = "BONUS AFTER-TAX 401(K)" -> "BonusAfterTax"
      [] source = "PRE-TAX 401(K)" -> "PreTax"
      [] source = "AFTER-TAX 401(K)" -> "AfterTax"

\* date_p matches at a line that starts with a date
IsDateLine(line) == line.date /= NoDate
HasTail(line) == line.tail /= NoTail

\* where the row pattern can start matching: at a date (for a retirement
\* account, one followed by a known type and a known source) that some row
\* end follows, on the same line or a later one
RowStarts(text, from, type) ==
    {i \in from..Len(text) :
        /\ IsDateLine(text[i])
        /\ type = "retirement" =>
               text[i].type \in txn_types /\ text[i].source \in RetirementSources
        /\ \E k \in i..Len(text) : HasTail(text[k])}

\* the line of the first row end at or after line i
RowEnd(text, i) == Min({k \in i..Len(text) : HasTail(text[k])})

\* the matches finditer yields for the row pattern: each from the first
\* line a match can start at to the first row end at or after it, whatever
\* lies between ('.*?' and '[^.]+' match across lines), the search going on
\* after it
RECURSIVE RowMatches(_, _, _)
RowMatchesOver(text, i, k, type) ==
    <<[first |-> i, last |-> k]>> \o RowMatches(text, k + 1, type)
RowMatchesAt(text, i, type) == RowMatchesOver(text, i, RowEnd(text, i), type)
RowMatches(text, from, type) ==
    IF RowStarts(text, from, type) = {} THEN <<>>
    ELSE RowMatchesAt(text, Min(RowStarts(text, from, type)), type)

\* what the group of the fund captured: the lines of the match without the
\* parts the groups around it captured (the date in front and, for a
\* retirement account, the type and the source; the row end and, for a
\* mutual fund account, the type in front of it)
FundOf(text, m, type) ==
    [n \in 1..(m.last - m.first + 1) |->
        TextLine(IF n = 1 THEN NoDate ELSE text[m.first + n - 1].date,
                 text[m.first + n - 1].fund,
                 IF type = "retirement" /\ n = 1 THEN ""
                 ELSE IF type = "mutual_fund" /\ m.first + n - 1 = m.last THEN ""
                 ELSE text[m.first + n - 1].type,
                 IF n = 1 THEN "" ELSE text[m.first + n - 1].source,
                 NoTail)]

\* new_row of parseMutualFundPDF: the type is what the description ends with
mutual_fund_new_row(text, m, filename) ==
    IF text[m.last].type \notin MutualFundTypes
    THEN Raise("ValueError",
               <<filename, "cannot identify transaction type at end of",
                 text[m.last].type>>)
    ELSE Ok(MutualFundRow(
                text[m.first].date,
                FundOf(text, m, "mutual_fund"),
                text[m.last].type,
                SharesOf(text[m.last].tail.sharessign, text[m.last].tail.shares),
                getBeancountAmount("", text[m.last].tail.price),
                getBeancountAmount(text[m.last].tail.amountsign,
                                   text[m.last].tail.amount),
                filename))

\* new_row of parseRetirementPDF: the type is the one the pattern matched
\* after the date
retirement_new_row(text, m, filename) ==
    Ok(RetirementRow(
           text[m.first].date,
           text[m.first].type,
           RETIREMENT_SOURCE_TO_ACCOUNT(text[m.first].source),
           FundOf(text, m, "retirement"),
           IF text[m.first].type \in ImpliedNegative
           THEN NegDecimal(SharesOf(text[m.last].tail.sharessign,
                                    text[m.last].tail.shares))
           ELSE SharesOf(text[m.last].tail.sharessign, text[m.last].tail.shares),
           getBeancountAmount("", text[m.last].tail.price),
           IF text[m.first].type \in ImpliedNegative
           THEN NegAmount(getBeancountAmount(text[m.last].tail.amountsign,
                                             text[m.last].tail.amount))
           ELSE getBeancountAmount(text[m.last].tail.amountsign,
                                   text[m.last].tail.amount),
           filename))

\* parser(m) for each match, in the order of the text
NewRows(text, matches, type, filename) ==
    [i \in 1..Len(matches) |->
        IF type = "mutual_fund" THEN mutual_fund_new_row(text, matches[i], filename)
        ELSE retirement_new_row(text, matches[i], filename)]

\* the lines no match took
RECURSIVE Unmatched(_, _, _)
Unmatched(text, matches, i) ==
    IF i > Len(text) THEN <<>>
    ELSE (IF \E n \in 1..Len(matches) : i \in matches[n].first..matches[n].last
          THEN <<>> ELSE <<text[i]>>)
         \o Unmatched(text, matches, i + 1)

\* findAndConsume, matches being what finditer yields: the text left over
\* and the parser's results, or the exception of the first call of the
\* parser that raised
Consume(type, text, filename, matches) ==
    [remaining |-> Unmatched(text, matches, 1),
     results |-> AppendResults(NewRows(text, matches, type, filename))]
findAndConsume(type, text, filename) ==
    Consume(type, text, filename, RowMatches(text, 1, type))

\* no exception object: None
None == [tag |-> "None"]

\* checkUnconsumed: the ValueError is returned, not raised
checkUnconsumed(got_rows, want_rows, remaining_contents, filename) ==
    IF got_rows = want_rows THEN None
    ELSE [tag |-> "ValueError",
          msg |-> <<filename, got_rows, want_rows, remaining_contents>>]

\* want_rows: the matches of date_p
WantRows(text) == Cardinality({i \in 1..Len(text) : IsDateLine(text[i])})

\* the end of both parse functions, found being what findAndConsume came
\* to: the rows returned or the exception raised, and the value assigned to
\* err on the way
ReturnRows(found, want_rows, filename) ==
    [result |-> found.results,
     err |-> IF found.results.tag /= "ok" THEN NotCalled
             ELSE checkUnconsumed(Len(found.results.val), want_rows,
                                  found.remaining, filename)]

\* parseMutualFundPDF, contents_ being what pdfToText returned
parseMutualFundPDF(filename, contents_) ==
    ReturnRows(findAndConsume("mutual_fund", contents_, filename),
               WantRows(contents_), filename)

\* parseRetirementPDF, contents_ being what pdfToText returned
parseRetirementPDF(filename, contents_) ==
    ReturnRows(findAndConsume("retirement", contents_, filename),
               WantRows(contents_), filename)

----------------------------------------------------------------------------
(* vanguard_pdf_to_txns: what the script is run on *)

AccountTypes == {"mutual_fund", "retirement"}

\* args.pdfs
VanguardPaths == <<"2021-01.pdf", "2021-02.pdf">>

\* the lines a statement of a mutual fund account is made of here: a
\* purchase, a sale the same day, a dividend before them, a row of a type the
\* script does not know, and a row broken off after its description
MutualFundLines ==
    {TextLine(Date(2021, 1, 4), "500 Index Fund Adm", "Buy", "",
              RowTail("", <<"1", ".", "2", "3", "4">>,
                      <<"8", "1", ".", "0", "4">>,
                      "", <<"1", "0", "0", ".", "0", "0">>)),
     TextLine(Date(2021, 1, 4), "Total Bond Mkt Index Adm", "Sell", "",
              RowTail("en-dash ", <<"5", ".", "0", "0", "0">>,
                      <<"1", "0", ".", "0", "0">>,
                      "en-dash ", <<"5", "0", ".", "0", "0">>)),
     TextLine(Date(2021, 1, 2), "Total Bond Mkt Index Adm", "Dividend Received", "",
              RowTail("", <<"0", ".", "1", "2", "3">>,
                      <<"1", "0", ".", "0", "0">>,
                      "", <<"1", ".", "2", "3">>)),
     TextLine(Date(2021, 1, 5), "500 Index Fund Adm", "Exchange", "",
              RowTail("", <<"1", ".", "0", "0", "0">>,
                      <<"8", "1", ".", "0", "4">>,
                      "", <<"8", "1", ".", "0", "4">>)),
     TextLine(Date(2021, 1, 6), "500 Index Fund Adm", "Buy", "", NoTail)}

\* the same for a retirement account, whose rows name a source
RetirementLines ==
    {TextLine(Date(2021, 1, 4), "Target Retire 2050 Tr",
              "Plan Contribution", "PRE-TAX 401(K)",
              RowTail("", <<"1", ".", "2", "3", "4">>,
                      <<"8", "1", ".", "0", "4">>,
                      "", <<"1", "0", "0", ".", "0", "0">>)),
     TextLine(Date(2021, 1, 4), "Target Retire 2050 Tr",
              "Fee", "PRE-TAX 401(K)",
              RowTail("", <<"0", ".", "0", "3", "1">>,
                      <<"8", "1", ".", "0", "4">>,
                      "", <<"2", ".", "5", "0">>)),
     TextLine(Date(2021, 1, 2), "Target Retire 2050 Tr",
              "Dividends on Equity Investments", "PRE-TAX 401(K)",
              RowTail("", <<"0", ".", "1", "2", "3">>,
                      <<"1", "0", ".", "0", "0">>,
                      "", <<"1", ".", "2", "3">>)),
     TextLine(Date(2021, 1, 5), "Target Retire 2050 Tr",
              "Loan Repayment", "PRE-TAX 401(K)",
              RowTail("", <<"1", ".", "0", "0", "0">>,
                      <<"8", "1", ".", "0", "4">>,
                      "", <<"8", "1", ".", "0", "4">>)),
     TextLine(Date(2021, 1, 6), "Target Retire 2050 Tr",
              "Plan Contribution", "PRE-TAX 401(K)", NoTail)}

StatementLines(type) ==
    IF type = "mutual_fund" THEN MutualFundLines ELSE RetirementLines

\* the texts pdftotext may write for a statement
Texts(type) == SeqsUpTo(StatementLines(type), MaxLines)

----------------------------------------------------------------------------
(* vanguard_pdf_to_txns: calling pdfToText again and again on one PDF, the
   user editing the '.txt' file in between *)

\* the texts the '.txt' file of the PDF goes through: those of purchases
SidecarTexts ==
    SeqsUpTo({l \in MutualFundLines : l.type = "Buy"}, MaxLines)

InitSidecar ==
    /\ pc = "idle"
    /\ s = <<>>
    /\ amount_out = NotCalled
    /\ to_adjust = NoDate
    /\ latest_date = NoDate
    /\ adjusted_out = NotCalled
    /\ NoStatement
    /\ NoRules
    /\ NoIdentify
    /\ account_type = "mutual_fund"
    /\ pdfs = <<>>
    /\ path = VanguardPaths[1]
    /\ \E file \in {NoFile} \cup {Ok(text) : text \in SidecarTexts} :
           sidecar = [p \in {path} |-> file]
    /\ tool_runs = [p \in {path} |-> 0]
    /\ text_out = NotCalled
    /\ err = NotCalled
    /\ rows = <<>>

CallPdfToText ==
    /\ pc \in {"idle", "called", "edited"}
    /\ sidecar[path] /= NoFile \/ tool_runs[path] < MaxToolRuns
    /\ \E outcome \in ToolOutcomes, pdftext \in SidecarTexts :
           /\ sidecar' = [sidecar EXCEPT
                  ![path] = pdfToText(sidecar[path], outcome, pdftext).file]
           /\ tool_runs' = [tool_runs EXCEPT
                  ![path] = IF pdfToText(sidecar[path], outcome, pdftext).ran
                            THEN @ + 1 ELSE @]
           /\ text_out' = pdfToText(sidecar[path], outcome, pdftext).result
    /\ pc' = "called"
    /\ UNCHANGED <<callVars, stmtVars, ruleVars, idVars, account_type, pdfs, path,
                   err, rows>>

\* the user corrects the '.txt' file by hand
EditSidecar ==
    /\ pc \in {"idle", "called", "edited"}
    /\ sidecar[path] /= NoFile
    /\ \E text \in SidecarTexts :
           /\ Ok(text) /= sidecar[path]
           /\ sidecar' = [sidecar EXCEPT ![path] = Ok(text)]
    /\ pc' = "edited"
    /\ UNCHANGED <<callVars, stmtVars, ruleVars, idVars, account_type, pdfs, path,
                   tool_runs, text_out, err, rows>>

NextSidecar ==
    \/ CallPdfToText
    \/ EditSidecar

SpecSidecar == InitSidecar /\ [][NextSidecar]_vars

----------------------------------------------------------------------------
(* vanguard_pdf_to_txns: the script, from the loop over args.pdfs to the
   sort, run on PDFs saved to a new directory *)

\* ACCOUNT_TYPE_PARSERS: the parse function of the account type
ACCOUNT_TYPE_PARSERS(type, filename, contents_) ==
    IF type = "mutual_fund" THEN parseMutualFundPDF(filename, contents_)
    ELSE parseRetirementPDF(filename, contents_)

\* Decimal.__lt__
DecLT(a, b) == Signed(a) * Pow10(b.scale) < Signed(b) * Pow10(a.scale)

\* Amount.__lt__ compares (currency, number); the amounts of the rows are
\* all in USD
AmountLT(a, b) == a.currency = b.currency /\ DecLT(a.number, b.number)

\* the key of the sort with the amount as it is, not negated
RowKeyLTByAmount(a, b) ==
    \/ DateLT(a.date, b.date)
    \/ /\ a.date = b.date
       /\ ~AmountEq(a.amount, b.amount)
       /\ AmountLT(a.amount, b.amount)

\* (a.date, -a.amount) < (b.date, -b.amount), as tuples compare: by the
\* first component in which they are not equal
RowKeyLT(a, b) ==
    \/ DateLT(a.date, b.date)
    \/ /\ a.date = b.date
       /\ ~AmountEq(NegAmount(a.amount), NegAmount(b.amount))
       /\ AmountLT(NegAmount(a.amount), NegAmount(b.amount))

\* rs[j] comes before rs[i] once rs is sorted; list.sort is stable
ComesBefore(rs, j, i) ==
    \/ RowKeyLT(rs[j], rs[i])
    \/ ~RowKeyLT(rs[i], rs[j]) /\ j < i

\* rows.sort(key=lambda r: (r.date, -r.amount))
SortedRows(rs) ==
    [k \in 1..Len(rs) |->
        rs[CHOOSE i \in 1..Len(rs) :
               Cardinality({j \in 1..Len(rs) : ComesBefore(rs, j, i)}) = k - 1]]

InitVanguard ==
    /\ pc = "parse"
    /\ s = <<>>
    /\ amount_out = NotCalled
    /\ to_adjust = NoDate
    /\ latest_date = NoDate
    /\ adjusted_out = NotCalled
    /\ NoStatement
    /\ NoRules
    /\ NoIdentify
    /\ account_type \in AccountTypes
    /\ pdfs = VanguardPaths
    /\ path = "none"
    /\ sidecar = [p \in {VanguardPaths[i] : i \in 1..Len(VanguardPaths)} |-> NoFile]
    /\ tool_runs = [p \in {VanguardPaths[i] : i \in 1..Len(VanguardPaths)} |-> 0]
    /\ text_out = NotCalled
    /\ err = NotCalled
    /\ rows = <<>>

\* rows.extend(parse_fn(path)), parsed being what the parse function came to
\* after pdfToText returned
ExtendRows(parsed) ==
    /\ err' = parsed.err
    /\ IF parsed.result.tag /= "ok"
       THEN /\ error' = parsed.result
            /\ pc' = "failed"
            /\ UNCHANGED <<pdfs, rows>>
       ELSE /\ rows' = rows \o parsed.result.val
            /\ pdfs' = Tail(pdfs)
            /\ pc' = "parse"
            /\ UNCHANGED error

\* one turn of the loop over args.pdfs, t being what pdfToText came to
ParsePath(t) ==
    /\ path' = Head(pdfs)
    /\ sidecar' = [sidecar EXCEPT ![Head(pdfs)] = t.file]
    /\ tool_runs' = [tool_runs EXCEPT ![Head(pdfs)] = IF t.ran THEN @ + 1 ELSE @]
    /\ text_out' = t.result
    /\ IF t.result.tag /= "ok"
       THEN /\ error' = t.result
            /\ pc' = "failed"
            /\ UNCHANGED <<pdfs, err, rows>>
       ELSE ExtendRows(ACCOUNT_TYPE_PARSERS(account_type, Head(pdfs), t.result.val))

ParsePdf ==
    /\ pc = "parse"
    /\ pdfs /= <<>>
    /\ \E outcome \in ToolOutcomes, pdftext \in Texts(account_type) :
           ParsePath(pdfToText(sidecar[Head(pdfs)], outcome, pdftext))
    /\ UNCHANGED <<callVars, ruleVars, idVars, account_type, importer, current_year,
                   contents, account_no, balance, closing_date, transactions,
                   items, returned>>

SortRows ==
    /\ pc = "parse"
    /\ pdfs = <<>>
    /\ rows' = SortedRows(rows)
    /\ pc' = "print"
    /\ UNCHANGED <<callVars, stmtVars, ruleVars, idVars, account_type, pdfs, path,
                   sidecar, tool_runs, text_out, err>>

NextVanguard ==
    \/ ParsePdf
    \/ SortRows

SpecVanguard == InitVanguard /\ [][NextVanguard]_vars

----------------------------------------------------------------------------
(* The Bank of America importers: identify, then extract, on one file *)

\* the exit statuses of pdftotext: success, and a file it cannot open as a PDF
ExitStatuses == {0, 1}

\* parsers.PDFToText: what pdftotext printed; check_output raises
\* CalledProcessError on a non-zero exit status
PDFToText(status, text) ==
    IF status /= 0 THEN Raise("CalledProcessError", status) ELSE Ok(text)

\* what the closures of a rule set capture once the closing date is known
EnvOf(who, year, closing) ==
    [closing_date |-> closing, current_year |-> year, importer |-> who,
     rewards_currency |-> "none"]

\* the tuple a rule set returns, or the exception of the first step that
\* raised
StatementOf(a, b, c, t) ==
    IF a.tag /= "ok" THEN a
    ELSE IF b.tag /= "ok" THEN b
    ELSE IF c.tag /= "ok" THEN c
    ELSE IF t.tag /= "ok" THEN t
    ELSE Ok([account_no |-> a.val, balance |-> b.val, closing_date |-> c.val,
             transactions |-> t.val])

\* the rows are parsed with the closing date in hand
StatementClosing(who, text, year, c) ==
    StatementOf(
        reduceSingleMatch(AccountPattern(who), "<lambda>", text,
                          EnvOf(who, year, NoDate)),
        reduceSingleMatch(BalancePattern(who), "_balance", text,
                          EnvOf(who, year, NoDate)),
        c,
        IF c.tag /= "ok" THEN c
        ELSE parseAll("row", "_transaction", text, EnvOf(who, year, c.val)))

\* parsers.BankOfAmericaBank, contents_ being what PDFToText returned
BankOfAmericaBank(contents_, year) ==
    StatementClosing("BankOfAmericaBank", contents_, year,
        reduceSingleMatch(ClosingPattern("BankOfAmericaBank"), "_closing",
                          contents_, EnvOf("BankOfAmericaBank", year, NoDate)))

\* parsers.BankOfAmericaCreditCard, contents_ being what PDFToText returned
BankOfAmericaCreditCard(contents_, year) ==
    StatementClosing("BankOfAmericaCreditCard", contents_, year,
        reduceSingleMatch(ClosingPattern("BankOfAmericaCreditCard"), "_closing",
                          contents_, EnvOf("BankOfAmericaCreditCard", year, NoDate)))

\* the rule set of the importer, run on what PDFToText came to
ReadStatement(who, pdftext, year) ==
    IF pdftext.tag /= "ok" THEN pdftext
    ELSE IF who = "BankOfAmericaBank" THEN BankOfAmericaBank(pdftext.val, year)
    ELSE BankOfAmericaCreditCard(pdftext.val, year)

\* the base names a file may have
Basenames == {"eStmt_2021-01-04.pdf", "statement.pdf", "eStmt_2021-01-04.txt"}

\* re.match(r'^eStmt_.*\.pdf$', name)
BANK_OF_AMERICA_FILE_PATTERN(name) == name = "eStmt_2021-01-04.pdf"

\* identify without its 'except ValueError': what the rule set raises goes
\* to the caller
IdentifyLettingThrough(r, numbers) ==
    IF r.tag /= "ok" THEN r
    ELSE Ok(r.val.account_no \in numbers)

\* what is left of identify once the name matched, r being what the rule
\* set came to: 'except ValueError' lets any other exception through
IdentifyNumber(r, numbers) ==
    IF r.tag = "ValueError" THEN Ok(FALSE)
    ELSE IF r.tag /= "ok" THEN r
    ELSE Ok(r.val.account_no \in numbers)

\* what is left of extract, r being what the rule set came to
ExtractItems(r, filename, account) ==
    IF r.tag /= "ok" THEN r
    ELSE Ok(SortedItems(
                AddBalance(
                    AddTransactions(<<>>, filename, account, r.val.transactions),
                    filename, account, r.val.closing_date, r.val.balance)))

\* the account numbers printed on statements and given to importers
StatementNumbers(who) ==
    IF who = "BankOfAmericaBank" THEN {"0001 0002 0003", "0009 0008 0007"}
    ELSE {"1234 5678 9012 3456", "9999 8888 7777 6666"}

InitIdentify ==
    /\ pc = "identify"
    /\ importer \in {"BankOfAmericaBank", "BankOfAmericaCreditCard"}
    /\ current_year \in {RulesClosing.y, RulesClosing.y + 1}
    /\ basename \in Basenames
    /\ account_numbers \in SUBSET StatementNumbers(importer)
    /\ account_numbers /= {}
    /\ importer = "BankOfAmericaBank" => Cardinality(account_numbers) = 1
    /\ \E accts \in LinesOf({[kind |-> AccountPattern(importer), num |-> n] :
                               n \in StatementNumbers(importer)}, MaxFactLines),
          bals \in LinesOf(RulesBalanceTokens, 1),
          rowlines \in LinesOf(RuleRows(importer), MaxRows) :
            contents =
                IF importer = "BankOfAmericaBank"
                THEN accts
                     \o [i \in 1..Len(bals) |->
                            FactLine("Ending balance on", RulesClosing, bals[i])]
                     \o rowlines
                ELSE accts
                     \o <<FactLine(ClosingPattern(importer), RulesClosing, <<>>)>>
                     \o [i \in 1..Len(bals) |->
                            FactLine(BalancePattern(importer), NoDate, bals[i])]
                     \o rowlines
    /\ identified = NotCalled
    /\ tool_runs = [p \in {basename} |-> 0]
    /\ account_no = NotCalled
    /\ balance = NotCalled
    /\ closing_date = NotCalled
    /\ transactions = NotCalled
    /\ items = <<>>
    /\ error = NotCalled
    /\ returned = NotCalled
    /\ s = <<>>
    /\ amount_out = NotCalled
    /\ to_adjust = NoDate
    /\ latest_date = NoDate
    /\ adjusted_out = NotCalled
    /\ NoRules
    /\ account_type = "none"
    /\ pdfs = <<>>
    /\ path = "none"
    /\ sidecar = <<>>
    /\ text_out = NotCalled
    /\ err = NotCalled
    /\ rows = <<>>

\* importer.identify(f); the caller goes on to extract when it returned True
Identify ==
    /\ pc = "identify"
    /\ IF ~BANK_OF_AMERICA_FILE_PATTERN(basename)
       THEN /\ identified' = Ok(FALSE)
            /\ pc' = "done"
            /\ UNCHANGED tool_runs
       ELSE \E status \in ExitStatuses :
                /\ tool_runs' = [tool_runs EXCEPT ![basename] = @ + 1]
                /\ identified' =
                       IdentifyNumber(
                           ReadStatement(importer, PDFToText(status, contents),
                                         current_year),
                           account_numbers)
                /\ pc' = IF identified' = Ok(TRUE) THEN "extract" ELSE "done"
    /\ UNCHANGED <<callVars, stmtVars, ruleVars, basename, account_numbers,
                   account_type, pdfs, path, sidecar, text_out, err, rows>>

\* importer.extract(f)
Extract ==
    /\ pc = "extract"
    /\ \E status \in ExitStatuses :
           /\ tool_runs' = [tool_runs EXCEPT ![basename] = @ + 1]
           /\ returned' =
                  ExtractItems(
                      ReadStatement(importer, PDFToText(status, contents),
                                    current_year),
                      basename, ACCOUNT)
    /\ pc' = IF returned'.tag = "ok" THEN "done" ELSE "failed"
    /\ error' = IF returned'.tag = "ok" THEN error ELSE returned'
    /\ UNCHANGED <<callVars, ruleVars, idVars, importer, current_year, contents,
                   account_no, balance, closing_date, transactions, items,
                   account_type, pdfs, path, sidecar, text_out, err, rows>>

NextIdentify ==
    \/ Identify
    \/ Extract

SpecIdentify == InitIdentify /\ [][NextIdentify]_vars

----------------------------------------------------------------------------
(* The amount parser's claims *)

\* A decimal magnitude as a statement prints it: digits, thousands
\* separators and at most one point, with a digit on each side of a separator.
IsMagnitude(b) ==
    /\ b /= <<>>
    /\ \A i \in 1..Len(b) : IsDigit(b[i]) \/ b[i] \in {",", "."}
    /\ IsDigit(b[1])
    /\ \A i \in 1..Len(b) : b[i] = "," => i < Len(b) /\ IsDigit(b[i + 1])
    /\ Cardinality({i \in 1..Len(b) : b[i] = "."}) <= 1

MagnitudeOf(b) == DecimalOf(SelectSeq(b, NotSeparator))

\* str is pre, then a magnitude, then post
HasForm(str, pre, post) ==
    /\ Len(str) > Len(pre) + Len(post)
    /\ SubSeq(str, 1, Len(pre)) = pre
    /\ SubSeq(str, Len(str) - Len(post) + 1, Len(str)) = post
    /\ IsMagnitude(SubSeq(str, Len(pre) + 1, Len(str) - Len(post)))

Inner(str, pre, post) == SubSeq(str, Len(pre) + 1, Len(str) - Len(post))

\* the amount of magnitude b, negative or not, in USD
UsdOf(b, neg) ==
    Ok(Amount(Dec(neg, MagnitudeOf(b).coef, MagnitudeOf(b).scale), "USD"))

\* C5: ParseAmount("- $d") is -d in USD, as ParseAmount("-$d") is.
C5_MinusSpaceDollar ==
    (pc = "done" /\ HasForm(s, <<"-", " ", "$">>, <<>>)) =>
        /\ amount_out = UsdOf(Inner(s, <<"-", " ", "$">>, <<>>), TRUE)
        /\ amount_out = ParseAmount(<<"-", "$">> \o Inner(s, <<"-", " ", "$">>, <<>>))

\* C6: "d" and "$d" parse to +d; "-$d", "($d)" and "(d)" parse to -d; the
\* coefficient and the number of fractional digits are those of d.
C6_RoundTrip ==
    pc = "done" =>
        /\ HasForm(s, <<>>, <<>>) => amount_out = UsdOf(s, FALSE)
        /\ HasForm(s, <<"$">>, <<>>) =>
               amount_out = UsdOf(Inner(s, <<"$">>, <<>>), FALSE)
        /\ HasForm(s, <<"-", "$">>, <<>>) =>
               amount_out = UsdOf(Inner(s, <<"-", "$">>, <<>>), TRUE)
        /\ HasForm(s, <<"(", "$">>, <<")">>) =>
               amount_out = UsdOf(Inner(s, <<"(", "$">>, <<")">>), TRUE)
        /\ HasForm(s, <<"(">>, <<")">>) =>
               amount_out = UsdOf(Inner(s, <<"(">>, <<")">>), TRUE)

C6_Witness ==
    /\ pc = "done"
    /\ s = <<"(", "$", "1", ".", "1", "0", ")">>
    /\ amount_out = Ok(Amount(Dec(TRUE, 110, 2), "USD"))

\* C7: a token wrapped in parentheses that also carries a leading minus,
\* "(-$d)" or "(-d)", parses to -d or fails; it never parses to +d.
C7_NoDoubleNegation ==
    pc = "done" =>
        /\ (HasForm(s, <<"(", "-", "$">>, <<")">>) /\ amount_out.tag = "ok") =>
               DecEq(amount_out.val.number,
                     UsdOf(Inner(s, <<"(", "-", "$">>, <<")">>), TRUE).val.number)
        /\ (HasForm(s, <<"(", "-">>, <<")">>) /\ amount_out.tag = "ok") =>
               DecEq(amount_out.val.number,
                     UsdOf(Inner(s, <<"(", "-">>, <<")">>), TRUE).val.number)

\* What is left of a token after the markers of the amount grammar are
\* stripped: a full parenthesized wrap, a leading "-$" or "- $", a leading "$".
UnwrapParens(str) ==
    IF Len(str) >= 2 /\ str[1] = "(" /\ str[Len(str)] = ")"
    THEN SubSeq(str, 2, Len(str) - 1) ELSE str
DropMinus(str) ==
    IF StartsWith(str, <<"-", "$">>) THEN SubSeq(str, 3, Len(str))
    ELSE IF StartsWith(str, <<"-", " ", "$">>) THEN SubSeq(str, 4, Len(str))
    ELSE str
DropDollar(str) == IF StartsWith(str, <<"$">>) THEN Tail(str) ELSE str
Remainder(str) == DropDollar(DropMinus(UnwrapParens(str)))

\* a remainder that reads as a decimal, separators aside
IsValidDecimal(str) ==
    str /= <<>> /\ IsDecimalText(SelectSeq(str, NotSeparator))

\* C8: a token whose remainder is not a valid decimal (the empty remainder of
\* "$", "-$" and "()" included) makes ParseAmount fail; no amount is returned.
C8_MalformedFails ==
    (pc = "done" /\ ~IsValidDecimal(Remainder(s))) => amount_out.tag /= "ok"

----------------------------------------------------------------------------
(* The date normalizer's claims *)

DateLE(a, b) == ~DateLT(b, a)

\* C1: the result is the candidate itself when it is not after the reference
\* (equal included), and the candidate one year earlier, same month and day,
\* when it is after the reference.
C1_YearResolution ==
    pc = "done" =>
        adjusted_out =
            IF DateLE(to_adjust, latest_date) THEN Ok(to_adjust)
            ELSE Ok(Date(to_adjust.y - 1, to_adjust.m, to_adjust.d))

\* C2: the date returned is never after the reference date.
C2_NeverAfterReference ==
    (pc = "done" /\ adjusted_out.tag = "ok") =>
        DateLE(adjusted_out.val, latest_date)

----------------------------------------------------------------------------
(* The statement's claims *)

LinesOfKind(kind) == {p \in 1..Len(contents) : contents[p].kind = kind}

\* the i-th line of the kind, counted from the top of the text
NthOfKind(kind, i) ==
    contents[CHOOSE p \in LinesOfKind(kind) :
                 Cardinality({q \in LinesOfKind(kind) : q <= p}) = i]

Usd(neg, coef, scale) == Amount(Dec(neg, coef, scale), "USD")

IsScenario ==
    /\ LinesOfKind("row") /= {}
    /\ \A p \in LinesOfKind("row") : contents[p] = WholeFoods
    /\ Cardinality(LinesOfKind("row")) = 1
    /\ LinesOfKind("Statement Closing Date") /= {}
    /\ \A p \in LinesOfKind("Statement Closing Date") :
           contents[p] = ClosingLine(Date(2021, 1, 4))
    /\ LinesOfKind("New Balance Total") /= {}
    /\ \A p \in LinesOfKind("New Balance Total") :
           contents[p] = BalanceLine(<<"$", "2", "5", "1", ".", "4", "9">>)
    /\ importer /= "Read" => LinesOfKind("Account Number") /= {}

\* C3: the statement closing 01/04/21 with balance $251.49 and the one row
\* 12/05 WHOLE FOODS 251.49 yields the Movement of 2020-12-05 for -251.49 and
\* the BalanceAssertion of 2021-01-05 for -251.49, in whatever year it is read.
C3_EndToEnd ==
    (pc \in {"done", "failed"} /\ IsScenario) =>
        /\ pc = "done"
        /\ returned =
             Ok(<<DataTransaction([filename |-> FILENAME, lineno |-> 0],
                                  Date(2020, 12, 5),
                                  <<"WHOLE FOODS #1234 SF CA">>, ACCOUNT,
                                  Usd(TRUE, 25149, 2)),
                  DataBalance([filename |-> FILENAME, lineno |-> 1],
                              Date(2021, 1, 5), ACCOUNT, Usd(TRUE, 25149, 2))>>)

\* the same number in the same currency
SameValue(a, b) ==
    /\ a.currency = b.currency
    /\ Signed(a.number) * Pow10(b.number.scale)
           = Signed(b.number) * Pow10(a.number.scale)

NoMatches(name) == Raise("ValueError", <<name, "found no matches">>)
Ambiguous(name) == Raise("ValueError", <<name, "found more than one match">>)

\* the amounts the closing-balance lines of the text stand for
BalancesInText ==
    {InvertAmount(UsdOf(Remainder(contents[p].amount), FALSE).val) :
        p \in LinesOfKind("New Balance Total")}
ClosingDatesInText ==
    {contents[p].date : p \in LinesOfKind("Statement Closing Date")}
AccountNumbersInText ==
    {contents[p].num : p \in LinesOfKind("Account Number")}

\* C4: singleton extraction returns v exactly when every match stands for the
\* one value v, fails with "found no matches" exactly when nothing matches and
\* with "found more than one match" exactly when two matches stand for
\* different values.  (A result does not change after the step that set it;
\* each is examined in the states that step leads to.)
C4_SingleMatch ==
    /\ (balance /= NotCalled /\ closing_date = NotCalled) =>
        LET found == BalancesInText
            agree == \A a, b \in found : SameValue(a, b)
        IN  /\ balance.tag = "ok" <=> (found /= {} /\ agree)
            /\ balance.tag = "ok" => \A a \in found : SameValue(balance.val, a)
            /\ balance = NoMatches("_balance") <=> found = {}
            /\ balance = Ambiguous("_balance") <=> ~agree
    /\ (closing_date /= NotCalled /\ transactions = NotCalled) =>
        LET found == ClosingDatesInText
        IN  /\ closing_date.tag = "ok" <=> \E v \in found : found = {v}
            /\ closing_date.tag = "ok" => found = {closing_date.val}
            /\ closing_date = NoMatches("_closing") <=> found = {}
            /\ closing_date = Ambiguous("_closing") <=> Cardinality(found) > 1
    /\ (account_no /= NotCalled /\ balance = NotCalled) =>
        LET found == AccountNumbersInText
        IN  /\ account_no.tag = "ok" <=> \E v \in found : found = {v}
            /\ account_no.tag = "ok" => found = {account_no.val}
            /\ account_no = NoMatches("<lambda>") <=> found = {}
    /\ \A name \in {"_balance", "_closing", "<lambda>"} :
           NoMatches(name) /= Ambiguous(name)

C4_Witness ==
    /\ balance.tag = "ok"
    /\ SameValue(balance.val, Usd(TRUE, 15, 1))
    /\ \E p, q \in LinesOfKind("New Balance Total") :
           /\ contents[p].amount = <<"$", "1", ".", "5">>
           /\ contents[q].amount = <<"$", "1", ".", "5", "0">>

\* the Transaction items of the ledger, in the order they stand in it
MovementsOf(its) == SelectSeq(its, LAMBDA it : it.type = "Transaction")

\* C9: parseAll yields one result per matching row, in the order of the text
\* and with repeated rows kept, and AddTransactions appends one Movement per
\* transaction in that order.
C9_DocumentOrder ==
    /\ transactions.tag = "ok" =>
        /\ Len(transactions.val) = Cardinality(LinesOfKind("row"))
        /\ \A i \in 1..Len(transactions.val) :
               /\ transactions.val[i].date.m = NthOfKind("row", i).date.m
               /\ transactions.val[i].date.d = NthOfKind("row", i).date.d
               /\ SelectSeq(transactions.val[i].descr, LAMBDA c : c \notin {"\n", " "})
                      = SelectSeq(NthOfKind("row", i).descr,
                                  LAMBDA c : c \notin {"\n", " "})
    /\ pc \in {"add_balance", "return", "done"} =>
        /\ Len(MovementsOf(items)) = Len(transactions.val)
        /\ \A i \in 1..Len(transactions.val) :
               /\ items[i].type = "Transaction"
               /\ items[i].date = transactions.val[i].date
               /\ items[i].narration = transactions.val[i].descr
               /\ items[i].amount = transactions.val[i].amount
               /\ items[i].account = ACCOUNT

C9_Witness ==
    /\ pc = "done"
    /\ Len(transactions.val) = 2
    /\ transactions.val[1].descr /= transactions.val[2].descr
    /\ DateLT(transactions.val[2].date, transactions.val[1].date)
    /\ items[2].narration = transactions.val[2].descr

\* the calendar day after dt
DayAfter(dt) ==
    IF dt.d < DaysInMonth(dt.y, dt.m) THEN Date(dt.y, dt.m, dt.d + 1)
    ELSE IF dt.m < 12 THEN Date(dt.y, dt.m + 1, 1)
    ELSE Date(dt.y + 1, 1, 1)

\* C10: every BalanceAssertion AddBalance produced is dated the calendar day
\* after the closing date.
C10_BalanceDayAfterClosing ==
    /\ \A i \in 1..Len(items) :
           items[i].type = "Balance" => items[i].date = DayAfter(closing_date.val)
    /\ pc \in {"return", "done"} =>
           \E i \in 1..Len(items) : items[i].type = "Balance"

C10_Witness ==
    /\ pc = "done"
    /\ closing_date.val = Date(2020, 2, 28)
    /\ \E i \in 1..Len(items) :
           items[i].type = "Balance" /\ items[i].date = Date(2020, 2, 29)

----------------------------------------------------------------------------
(* The returned sequence's claims *)

\* the places of the directives of the type for the account in a sequence
PlacesOf(its, type, account) ==
    {i \in 1..Len(its) : its[i].type = type /\ its[i].account = account}

\* the accounts the directives of a sequence are recorded to
AccountsOf(its) == {its[i].account : i \in 1..Len(its)}

\* C11: in the sequence returned to the caller, each account has exactly one
\* BalanceAssertion and it stands after every Movement of that account.
C11_BalanceAfterMovements ==
    (pc = "done" /\ returned.tag = "ok") =>
        \A account \in AccountsOf(returned.val) :
            /\ Cardinality(PlacesOf(returned.val, "Balance", account)) = 1
            /\ \A b \in PlacesOf(returned.val, "Balance", account),
                  m \in PlacesOf(returned.val, "Transaction", account) : m < b

----------------------------------------------------------------------------
(* The multi-account statement's claims *)

Skipped(num) == skip_accounts.tag /= "None" /\ num \in skip_accounts.val

\* the accounts parsed that the skip list does not leave out
KeptAccounts == SelectSeq(accounts.val, LAMBDA a : ~Skipped(a.num))

Unmapped(accts) ==
    {i \in 1..Len(accts) : accts[i].num \notin DOMAIN num_to_account}

\* how many transactions, and how many sections, the accounts hold for num
RECURSIVE CountTransactions(_, _)
CountTransactions(accts, num) ==
    IF accts = <<>> THEN 0
    ELSE (IF Head(accts).num = num THEN Len(Head(accts).transactions) ELSE 0)
             + CountTransactions(Tail(accts), num)

CountSections(accts, num) ==
    Cardinality({i \in 1..Len(accts) : accts[i].num = num})

\* the loop of extract has been left
Projected == accounts.tag = "ok" /\ pc \in {"return", "done", "failed"}

\* C12: an account in skip_accounts yields no directive and no error, mapped
\* or not, and when every other account is mapped extract returns each one's
\* Movements and BalanceAssertion.
C12_SkipList ==
    Projected =>
        /\ error.tag = "KeyError" => ~Skipped(error.msg[2])
        /\ Unmapped(KeptAccounts) = {} =>
              /\ pc \in {"return", "done"}
              /\ \A num \in CapitalOneNumbers :
                    /\ Cardinality(PlacesOf(items, "Transaction",
                                            CapitalOneAccount(num)))
                           = CountTransactions(KeptAccounts, num)
                    /\ Cardinality(PlacesOf(items, "Balance",
                                            CapitalOneAccount(num)))
                           = CountSections(KeptAccounts, num)
                    /\ Skipped(num) =>
                           CapitalOneAccount(num) \notin AccountsOf(items)
              /\ pc = "done" =>
                    /\ returned.tag = "ok"
                    /\ Len(returned.val) = Len(items)
                    /\ \A i \in 1..Len(items) :
                           \E j \in 1..Len(items) : returned.val[j] = items[i]

C12_Witness ==
    /\ pc = "done"
    /\ \E i \in 1..Len(accounts.val) :
           /\ Skipped(accounts.val[i].num)
           /\ accounts.val[i].num \notin DOMAIN num_to_account
           /\ accounts.val[i].transactions /= <<>>
    /\ \E i \in 1..Len(KeptAccounts) : KeptAccounts[i].transactions /= <<>>
    /\ Len(returned.val) >= 2

\* C13: when an account that is not skipped has no entry in num_to_account,
\* extract raises and nothing is returned, whatever was built before.
C13_UnknownAccountFatal ==
    (Projected /\ Unmapped(KeptAccounts) /= {}) =>
        /\ pc = "failed"
        /\ error.tag = "KeyError"
        /\ error.msg[2] = KeptAccounts[Min(Unmapped(KeptAccounts))].num
        /\ returned = NotCalled

C13_Witness ==
    /\ pc = "failed"
    /\ error.tag = "KeyError"
    /\ items /= <<>>
    /\ returned = NotCalled

\* C14: a text in which no closing balance is found makes the parse fail;
\* nothing, an empty result included, is returned for it.
C14_ClosingBalanceMandatory ==
    (pc \in {"return", "done", "failed"} /\ importer = "CapitalOneBank"
        /\ LinesOfKind("Closing Balance") = {}) =>
        pc = "failed" /\ accounts.tag /= "ok"

----------------------------------------------------------------------------
(* The rule sets' claims *)

\* the rewards-balance lines of the text all state one value
OneRewardsBalance ==
    /\ LinesOfKind("Total points available for") /= {}
    /\ \A p, q \in LinesOfKind("Total points available for") :
           contents[p].amount = contents[q].amount

\* C18: ParseAmount returns an amount in the currency it is given, USD when
\* none is: the ChaseCC rewards balance is extracted, in the rewards currency
\* the caller supplied, and the closing balance is in USD.
C18_RewardsCurrency ==
    (importer = "ChaseCC" /\ pc \notin {"balance", "rewards_balance"}
        /\ balance.tag = "ok" /\ OneRewardsBalance) =>
        /\ rewards_balance.tag = "ok"
        /\ rewards_balance.val.currency = rewards_currency
        /\ DecEq(rewards_balance.val.number,
                 MagnitudeOf(NthOfKind("Total points available for", 1).amount))
        /\ balance.val.currency = "USD"

\* the rule sets of the liability accounts
CreditCards ==
    {"AmericanExpressCC", "BankOfAmericaCreditCard", "CapitalOneCreditCard",
     "ChaseCC"}

\* the amount a token of the text reads as: a leading minus makes it
\* negative, the digits are its magnitude
IsMinus(tok) == tok /= <<>> /\ tok[1] = "-"
DigitsOf(tok) == SelectSeq(tok, LAMBDA c : c \notin {"-", "$", " "})
AsPrinted(tok) ==
    Usd(IsMinus(tok), MagnitudeOf(DigitsOf(tok)).coef, MagnitudeOf(DigitsOf(tok)).scale)
Negated(tok) ==
    Usd(~IsMinus(tok), MagnitudeOf(DigitsOf(tok)).coef, MagnitudeOf(DigitsOf(tok)).scale)

\* what the rule set records for a token of the text
Recorded(who, tok) == IF who \in CreditCards THEN Negated(tok) ELSE AsPrinted(tok)

\* C20: a credit card rule set records the negation of every amount of the
\* text, transaction amounts and closing balance alike; the Bank of America
\* bank rule set records them as printed.  (ChaseCC never gets as far as its
\* rows, so its row transform is examined on each row directly.)
C20_LiabilityConvention ==
    /\ \A row \in RuleRows("ChaseCC") :
           ChaseCC_transaction(row, RulesClosing, current_year).tag = "ok" =>
               ChaseCC_transaction(row, RulesClosing, current_year).val.amount
                   = Recorded("ChaseCC", row.amount)
    /\ balance.tag = "ok" =>
           \A p \in LinesOfKind(BalancePattern(importer)) :
               balance.val = Recorded(importer, contents[p].amount)
    /\ transactions.tag = "ok" =>
           /\ Len(transactions.val) = Cardinality(LinesOfKind("row"))
           /\ \A i \in 1..Len(transactions.val) :
                  transactions.val[i].amount
                      = Recorded(importer, NthOfKind("row", i).amount)
    /\ \A i \in 1..Len(items) :
           /\ items[i].type = "Balance" => items[i].amount = balance.val
           /\ items[i].type = "Transaction" =>
                  items[i].amount = transactions.val[i].amount

C20_Witness ==
    /\ pc = "done"
    /\ importer = "AmericanExpressCC"
    /\ returned.tag = "ok"
    /\ balance.val = Usd(TRUE, 25149, 2)
    /\ Len(transactions.val) = 2
    /\ transactions.val[1].amount = Usd(TRUE, 199, 2)
    /\ transactions.val[2].amount = Usd(FALSE, 1000, 2)

----------------------------------------------------------------------------
(* The sidecar cache's claims *)

\* C19, as stated: for any PDF, pdftotext runs at most once over all the
\* calls of pdfToText, and every call returns the content the sidecar file
\* has at that moment, a hand-edited one included.
C19_ToolRunsAtMostOnce ==
    /\ \A p \in DOMAIN tool_runs : tool_runs[p] <= 1
    /\ pc = "called" => text_out = sidecar[path]

\* C19, amended: a call of pdfToText runs pdftotext only when the sidecar
\* file is missing, and then once; it never removes or rewrites a sidecar
\* file that exists; and a call that returns, returns the content the
\* sidecar file has at that moment, a hand-edited one included.  (The tool
\* runs again on a later call when a run failed without writing the file,
\* and a call raises instead of returning when the tool fails or prints
\* anything.)
C19_SidecarCache ==
    [][\A p \in DOMAIN sidecar :
          /\ tool_runs'[p] \in {tool_runs[p], tool_runs[p] + 1}
          /\ sidecar[p] /= NoFile => tool_runs'[p] = tool_runs[p]
          /\ sidecar[p] /= NoFile /\ pc' = "called" => sidecar'[p] = sidecar[p]
          /\ sidecar[p] /= NoFile => sidecar'[p] /= NoFile
          /\ pc' = "called" /\ p = path' /\ text_out'.tag = "ok"
                => text_out' = sidecar'[p]]_vars

\* a call returned the two different lines the sidecar holds, the tool having
\* run once on the PDF
C19_Witness ==
    /\ pc = "called"
    /\ tool_runs[path] = 1
    /\ text_out.tag = "ok"
    /\ text_out = sidecar[path]
    /\ Len(text_out.val) = 2
    /\ text_out.val[1] /= text_out.val[2]

----------------------------------------------------------------------------
(* The Vanguard script's claims *)

\* a parse function ran on the text pdfToText returned for path
ParsedText == path /= "none" /\ text_out.tag = "ok"

\* the rows of path among the rows collected
RowsOfPath == {i \in 1..Len(rows) : rows[i].filename = path}

\* C15: when the row pattern matched fewer rows than there are dates at the
\* start of a line, the parse of the file fails with the error that carries
\* the text left over, and none of its rows is returned.
C15_IncompleteExtraction ==
    (/\ ParsedText
     /\ Len(RowMatches(text_out.val, 1, account_type)) < WantRows(text_out.val))
        => /\ pc = "failed"
           /\ error.tag = "ValueError"
           /\ err.tag = "ValueError" => error = err
           /\ RowsOfPath = {}

\* the transaction types the parse function of the account type knows
KnownTypes(type) == IF type = "mutual_fund" THEN MutualFundTypes ELSE txn_types

\* C16: for both account types, a text with a transaction row whose type is
\* not a known one makes the parse of the file fail with an error.
C16_UnrecognizedTransactionType ==
    (/\ ParsedText
     /\ \E i \in 1..Len(text_out.val) :
            /\ IsDateLine(text_out.val[i])
            /\ HasTail(text_out.val[i])
            /\ text_out.val[i].type \notin KnownTypes(account_type))
        => /\ pc = "failed"
           /\ error.tag = "ValueError"

IsAddition(row) == ~row.amount.number.neg /\ row.amount.number.coef > 0
IsReduction(row) == row.amount.number.neg /\ row.amount.number.coef > 0

\* C17: once the rows of all the files are sorted, dates do not decrease
\* along them, amounts do not increase among the rows of one date, and every
\* addition of a day comes before every reduction of that day.
C17_GlobalResort ==
    pc = "print" =>
        \A i, j \in 1..Len(rows) :
            i < j =>
                /\ DateLE(rows[i].date, rows[j].date)
                /\ rows[i].date = rows[j].date =>
                       /\ ~DecLT(rows[i].amount.number, rows[j].amount.number)
                       /\ ~(IsReduction(rows[i]) /\ IsAddition(rows[j]))

\* the sort moved the rows of the second file, an earlier one and an
\* addition, in front of a reduction of the first file made the day of the
\* addition
C17_Witness ==
    /\ pc = "print"
    /\ Len(rows) = 3
    /\ rows[1].filename = VanguardPaths[2]
    /\ DateLT(rows[1].date, rows[2].date)
    /\ rows[2].filename = VanguardPaths[2]
    /\ IsAddition(rows[2])
    /\ rows[3].filename = VanguardPaths[1]
    /\ IsReduction(rows[3])
    /\ rows[3].date = rows[2].date

----------------------------------------------------------------------------
(* The year-boundary adjustment is total *)

\* C24: for every valid candidate and reference date, AdjustDateForYearBoundary
\* returns a date with the candidate's month and day and never raises, a
\* candidate of 29 February that is moved back one year included.
C24_Total ==
    pc = "done" /\ IsValidDate(to_adjust) /\ IsValidDate(latest_date) =>
        /\ adjusted_out.tag = "ok"
        /\ adjusted_out.val.m = to_adjust.m
        /\ adjusted_out.val.d = to_adjust.d

----------------------------------------------------------------------------
(* The narrations *)

\* the description holds a line break
HasNewline(descr) == \E k \in 1..Len(descr) : descr[k] = "\n"

\* C21: no Movement returned by a rule set, the stand-alone Read of Bank of
\* America credit card statements included, has a line break in its
\* narration.
C21_NoNewlineInNarration ==
    returned.tag = "ok" =>
        \A i \in 1..Len(returned.val) :
            returned.val[i].type = "Transaction" =>
                ~HasNewline(returned.val[i].narration)

----------------------------------------------------------------------------
(* The importers' claims *)

\* identify returned True and the caller went on to extract, which ended
ExtractEnded == identified = Ok(TRUE) /\ pc \in {"done", "failed"}

\* C22: when identify and then extract are run on a statement file,
\* pdftotext runs once in total for that file.
C22_ToolRunsOncePerFile ==
    ExtractEnded => tool_runs[basename] = 1

\* what the rule set of the importer comes to on the text of the file
ParsedStatement == ReadStatement(importer, Ok(contents), current_year)

\* the file is one the importer is meant to accept
Acceptable ==
    /\ BANK_OF_AMERICA_FILE_PATTERN(basename)
    /\ ParsedStatement.tag = "ok"
    /\ ParsedStatement.val.account_no \in account_numbers

====
